---- MODULE Spec2Model ----
(***************************************************************************)
(* Contract extraction pipeline of llamaparse_neo4j: the Segmenter, the    *)
(* Metadata Resolver, the Party Resolver and the fallback orchestrator     *)
(* process_with_fallback, modelled from the Python sources.                *)
(*                                                                         *)
(* Python strings are TLA+ strings; the str methods the code uses (in,     *)
(* lower, split, strip, re.sub of whitespace) are the operators of the     *)
(* first section, computed character by character.                         *)
(***************************************************************************)
EXTENDS Integers, Sequences, FiniteSets, TLC

VARIABLES
    pc,                 \* position of the running function
    first_pages_text,   \* extract_parties: text of the first pages
    ner_out,            \* ORG words answered by contractbert_ner, in order
    spacy_out,          \* nlp(chunk): [ents |-> ORG entities, noun_chunks |-> ...]
    potential_parties,  \* extract_parties / extract_contract_metadata: candidates
    idx,                \* index of the next candidate of the running loop
    seen_parties,       \* extract_parties: set of accepted names
    parties,            \* extract_parties: the Party records built so far
    filtered_parties,   \* extract_contract_metadata: accepted names, in order
    txt_lines,          \* the plain-text source, line by line
    articles,           \* the Article list a Segmenter returns
    json_data,          \* process_with_fallback: what the JSON file holds
    txt_file,           \* process_with_fallback: state of the text file
    json_success,       \* process_with_fallback: local json_success
    processed_data,     \* process_with_fallback: the result container
    structured,         \* what the structured pass stored (lines 467-471)
    metadata,           \* extract_contract_metadata: the metadata dict
    entities,           \* extract_contract_metadata: entities grouped by type
    date_matches,       \* extract_contract_metadata: the matches of DATE_PATTERNS
    doc_classification, \* extract_contract_metadata: the classifier's answer
    last_pages_text,    \* extract_parties: text of the last pages
    steps,              \* the steps of the resolver that ran, in order
    cypher_commands,    \* process_json_file: the write statements generated so far
    key_provisions,     \* main: the key provisions handed to process_json_file
    written,            \* write_cypher_to_file: number of output files written
    chunk_answers,      \* what the annotation service does on each chunk, in order
    returned            \* the calls of extract_contract_metadata that returned

vars == <<pc, first_pages_text, ner_out, spacy_out, potential_parties, idx,
          seen_parties, parties, filtered_parties, txt_lines, articles,
          json_data, txt_file, json_success, processed_data, structured,
          metadata, entities, date_matches, doc_classification, last_pages_text, steps,
          cypher_commands, key_provisions, written, chunk_answers, returned>>

\* The empty dict.
EmptyDict == [k \in {} |-> ""]

\* The variables of the graph output and of the chunk loops.
outputVars == <<cypher_commands, key_provisions, written, chunk_answers, returned>>

\* Nothing was generated or written, and no chunk loop is running.
OutputIdle ==
    /\ cypher_commands = <<>>
    /\ key_provisions = <<>>
    /\ written = 0
    /\ chunk_answers = <<>>
    /\ returned = <<>>

\* The variables of the Metadata Resolver's cascades and of the signatories.
resolverVars == <<metadata, entities, date_matches, doc_classification, last_pages_text,
                  steps, outputVars>>

\* extract_contract_metadata is not running.
ResolverIdle ==
    /\ metadata = EmptyDict
    /\ entities = EmptyDict
    /\ date_matches = <<>>
    /\ doc_classification = <<>>
    /\ last_pages_text = ""
    /\ steps = <<>>
    /\ OutputIdle

\* The variables of the Segmenters and of the orchestrator.
txtVars == <<txt_lines, articles, json_data, txt_file, json_success, processed_data,
             structured>>

\* json_to_neo4j.py lines 440-447 (the keys the model follows).
InitialProcessedData ==
    [metadata |-> EmptyDict, articles |-> <<>>, parties |-> <<>>, source |-> "json"]

NothingStored == [metadata |-> EmptyDict, articles |-> <<>>]

\* process_with_fallback is not running.
OrchestratorIdle ==
    /\ json_data = [kind |-> "invalid", pages |-> <<>>]
    /\ txt_file = "none"
    /\ json_success = FALSE
    /\ processed_data = InitialProcessedData
    /\ structured = NothingStored
    /\ ResolverIdle

(***************************************************************************)
(* Python str operations.                                                  *)
(***************************************************************************)

\* s[i] of Python for a 1-based index: the one-character string at i.
CharAt(s, i) == SubSeq(s, i, i)

\* Python `sub in s`.
Contains(s, sub) ==
    \E i \in 0..(Len(s) - Len(sub)) : SubSeq(s, i + 1, i + Len(sub)) = sub

IsSpace(c) == c \in {" ", "\n", "\t"}

LowerChar(c) ==
    CASE c = "A" -> "a" [] c = "B" -> "b" [] c = "C" -> "c" [] c = "D" -> "d"
      [] c = "E" -> "e" [] c = "F" -> "f" [] c = "G" -> "g" [] c = "H" -> "h"
      [] c = "I" -> "i" [] c = "J" -> "j" [] c = "K" -> "k" [] c = "L" -> "l"
      [] c = "M" -> "m" [] c = "N" -> "n" [] c = "O" -> "o" [] c = "P" -> "p"
      [] c = "Q" -> "q" [] c = "R" -> "r" [] c = "S" -> "s" [] c = "T" -> "t"
      [] c = "U" -> "u" [] c = "V" -> "v" [] c = "W" -> "w" [] c = "X" -> "x"
      [] c = "Y" -> "y" [] c = "Z" -> "z" [] OTHER -> c

\* Python str.lower().
RECURSIVE Lower(_)
Lower(s) == IF s = "" THEN "" ELSE LowerChar(CharAt(s, 1)) \o Lower(SubSeq(s, 2, Len(s)))

\* Python str.strip(): leading and trailing whitespace removed.
RECURSIVE LStrip(_)
LStrip(s) == IF s # "" /\ IsSpace(CharAt(s, 1)) THEN LStrip(SubSeq(s, 2, Len(s))) ELSE s

RECURSIVE RStrip(_)
RStrip(s) ==
    IF s # "" /\ IsSpace(CharAt(s, Len(s))) THEN RStrip(SubSeq(s, 1, Len(s) - 1)) ELSE s

Strip(s) == LStrip(RStrip(s))

\* re.sub(r'\s+', ' ', s): every run of whitespace becomes one blank.
RECURSIVE CollapseWs(_)
CollapseWs(s) ==
    IF s = "" THEN ""
    ELSE IF IsSpace(CharAt(s, 1))
         THEN " " \o CollapseWs(LStrip(s))
         ELSE CharAt(s, 1) \o CollapseWs(SubSeq(s, 2, Len(s)))

\* len(s.split()): the number of maximal runs of non-whitespace characters.
WordCount(s) ==
    Cardinality({i \in 1..Len(s) :
        /\ ~IsSpace(CharAt(s, i))
        /\ (i = 1 \/ IsSpace(CharAt(s, i - 1)))})

\* any(term in s for term in terms)
ContainsAny(s, terms) == \E t \in terms : Contains(s, t)

\* `x in xs` for a Python list.
InList(x, xs) == \E i \in 1..Len(xs) : xs[i] = x

\* Sequences over S of length at most n.
SeqsUpTo(S, n) == UNION {[1..k -> S] : k \in 0..n}

(***************************************************************************)
(* Party Resolver: extract_parties (src/src/extract/parties.py).           *)
(***************************************************************************)

MaxOrgs == 2

\* Organisation words the annotation service may answer.
OrgVocab ==
    {"Acme Inc.", "Acme Inc. Holdings", "Inc. Holdings", "Acme  Inc. ",
     "Section 2 Corp.", "Beta LLC", "AB Co"}

\* First-pages texts of the documents considered.
PageTexts == {"", "Each party agrees.", "Between Acme Inc. and Beta LLC"}

\* re.search(r"Between\s+(.+?)\s+and\s+(.+?)(?=\s+(?:Effective Date|...|$))", text,
\* IGNORECASE | DOTALL): the two groups, stripped, or none.
BetweenGroups(text) ==
    IF text = "Between Acme Inc. and Beta LLC" THEN <<"Acme Inc.", "Beta LLC">> ELSE <<>>

\* bert_entities["ORG"]: stripped words longer than 2 characters.
RECURSIVE BertOrgs(_)
BertOrgs(words) ==
    IF words = <<>> THEN <<>>
    ELSE LET word == Strip(Head(words))
         IN  (IF word # "" /\ Len(word) > 2 THEN <<word>> ELSE <<>>) \o BertOrgs(Tail(words))

LegalSuffixes == {"Inc.", "LLC", "Ltd.", "Limited", "Corp.", "Corporation", "B.V.", "GmbH"}

CompanyWords == {"Company", "Corporation", "Technologies", "Systems", "International"}

\* The heuristics of lines 62-66.
LooksLikeParty(org) ==
    WordCount(org) > 1 /\ (ContainsAny(org, LegalSuffixes) \/ ContainsAny(org, CompanyWords))

\* The context test of lines 70-73: plain substring tests of the f-strings.
NearPartyContext(org, text) ==
    ContainsAny(text, {"party", "between.*" \o org, org \o ".*agrees",
                       org \o ".*hereinafter", org \o ".*referred to"})

\* Lines 60-74: each ORG word is appended once per test it passes.
RECURSIVE FromBert(_, _)
FromBert(orgs, text) ==
    IF orgs = <<>> THEN <<>>
    ELSE LET org == Head(orgs)
         IN  (IF LooksLikeParty(org) THEN <<org>> ELSE <<>>)
             \o (IF NearPartyContext(org, text) THEN <<org>> ELSE <<>>)
             \o FromBert(Tail(orgs), text)

\* `if org not in potential_parties: potential_parties.append(org)` for each org.
RECURSIVE AppendNew(_, _)
AppendNew(acc, orgs) ==
    IF orgs = <<>> THEN acc
    ELSE AppendNew(IF InList(Head(orgs), acc) THEN acc ELSE Append(acc, Head(orgs)),
                   Tail(orgs))

\* Lines 80-89: ORG words occurring in one of the two "Between ... and ..." halves.
RECURSIVE FromBetween(_, _, _)
FromBetween(acc, groups, orgs) ==
    IF groups = <<>> THEN acc
    ELSE LET InHalf(org) == Contains(Head(groups), org)
         IN  FromBetween(AppendNew(acc, SelectSeq(orgs, InHalf)), Tail(groups), orgs)

OrgWords ==
    {"inc", "corp", "llc", "ltd", "company", "corporation",
     "technologies", "systems", "associates", "partners"}

RECURSIVE StripAll(_)
StripAll(xs) == IF xs = <<>> THEN <<>> ELSE <<Strip(Head(xs))>> \o StripAll(Tail(xs))

\* Lines 98-119: SpaCy ORG entities, then noun chunks with an organisation word.
FromSpacy(acc, out) ==
    LET KeepEnt(org) == WordCount(org) > 1 /\ Len(org) > 5
        ents == SelectSeq(out.ents, LAMBDA e : Len(e) > 2)
        chunks == SelectSeq(out.noun_chunks, LAMBDA c : ContainsAny(Lower(c), OrgWords))
    IN  AppendNew(AppendNew(acc, SelectSeq(StripAll(ents), KeepEnt)),
                  SelectSeq(StripAll(chunks), KeepEnt))

\* potential_parties as it stands at line 120.
GatherCandidates(text, words, out) ==
    LET orgs == BertOrgs(words)
    IN  FromSpacy(FromBetween(FromBert(orgs, text), BetweenGroups(text), orgs), out)

\* Lines 125-126: whitespace collapsed and stripped; the quote replacement of
\* line 126 maps the straight double quote to itself.
NormalizeName(name) == Strip(CollapseWs(name))

FalsePositiveWords ==
    {"article", "section", "agreement", "contract", "date",
     "herein", "hereof", "hereto", "effective date"}

IsFalsePositive(name) == ContainsAny(Lower(name), FalsePositiveWords)

\* Lines 136-140 for a mutated resolver that compares in one direction only.
IsUniqueOneWay(name, seen) == \A s \in seen : ~Contains(s, name)

\* Lines 136-140: no accepted name contains the candidate or is contained in it.
IsUnique(name, seen) == \A s \in seen : ~(Contains(s, name) \/ Contains(name, s))

\* ORG_TYPES (contract_constants.py), each regex an alternation of literals.
ORG_TYPES ==
    << <<{"Inc.", "Corporation", "Corp."}, "Corporation">>,
       <<{"LLC"}, "Limited Liability Company">>,
       <<{"Ltd.", "Limited"}, "Limited Company">>,
       <<{"B.V."}, "Dutch Private Limited Company">>,
       <<{"GmbH"}, "German Limited Liability Company">>,
       <<{"S.A."}, "Anonymous Society">>,
       <<{"LLP"}, "Limited Liability Partnership">>,
       <<{"AG"}, "German Public Company">>,
       <<{"ApS"}, "Danish Private Limited Company">>,
       <<{"OY", "OYJ"}, "Finnish Company">>,
       <<{"PLC", "P.L.C."}, "Public Limited Company">> >>

\* Lines 146-152: the type of the first pattern found in the name.
EntityType(name) ==
    LET hits == {i \in 1..Len(ORG_TYPES) : ContainsAny(name, ORG_TYPES[i][1])}
    IN  IF hits = {} THEN "Organization"
        ELSE ORG_TYPES[CHOOSE i \in hits : \A j \in hits : i <= j][2]

InitParties ==
    /\ pc = "parties_ner"
    /\ first_pages_text \in PageTexts
    /\ ner_out \in (IF first_pages_text = "" THEN {<<>>} ELSE SeqsUpTo(OrgVocab, MaxOrgs))
    /\ spacy_out \in (IF first_pages_text = ""
                      THEN {[ents |-> <<>>, noun_chunks |-> <<>>]}
                      ELSE [ents : {<<>>, <<"Acme Inc. Holdings">>, <<"Beta LLC">>},
                            noun_chunks : {<<>>, <<"the Acme Inc. partners">>}])
    /\ potential_parties = <<>>
    /\ idx = 1
    /\ seen_parties = {}
    /\ parties = <<>>
    /\ filtered_parties = <<>>
    /\ txt_lines = <<>>
    /\ articles = <<>>
    /\ OrchestratorIdle

\* Lines 34-119: the candidates are gathered from the annotation answers.
PartiesGather ==
    /\ pc = "parties_ner"
    /\ potential_parties' = GatherCandidates(first_pages_text, ner_out, spacy_out)
    /\ pc' = "parties_create"
    /\ UNCHANGED <<first_pages_text, ner_out, spacy_out, idx, seen_parties, parties,
                   filtered_parties, txtVars, resolverVars>>

\* Lines 123-158: one iteration of the loop over potential_parties.
PartiesCreate ==
    /\ pc = "parties_create"
    /\ idx <= Len(potential_parties)
    /\ LET party_name == NormalizeName(potential_parties[idx])
           accept == /\ ~IsFalsePositive(party_name)
                     /\ IsUnique(party_name, seen_parties)
                     /\ Len(party_name) > 5
       IN  /\ seen_parties' = IF accept THEN seen_parties \cup {party_name} ELSE seen_parties
           /\ parties' = IF accept
                         THEN Append(parties, [name |-> party_name,
                                               type |-> EntityType(party_name),
                                               signatories |-> <<>>])
                         ELSE parties
    /\ idx' = idx + 1
    /\ UNCHANGED <<pc, first_pages_text, ner_out, spacy_out, potential_parties,
                   filtered_parties, txtVars, resolverVars>>

\* Line 241: return parties.
PartiesReturn ==
    /\ pc = "parties_create"
    /\ idx > Len(potential_parties)
    /\ pc' = "parties_returned"
    /\ UNCHANGED <<first_pages_text, ner_out, spacy_out, potential_parties, idx,
                   seen_parties, parties, filtered_parties, txtVars, resolverVars>>

NextParties == PartiesGather \/ PartiesCreate \/ PartiesReturn

SpecParties == InitParties /\ [][NextParties]_vars

\* C8: in every list extract_parties returns, no entry's name is a substring of
\* another entry's name (equal names included).
C8_NoSubstringNames ==
    pc = "parties_returned" =>
        \A i, j \in 1..Len(parties) :
            i # j => ~Contains(parties[i].name, parties[j].name)

\* A returned list of two Parties for which a candidate that contains an accepted
\* name was dropped.
C8_Witness ==
    /\ pc = "parties_returned"
    /\ Len(parties) >= 2
    /\ \E k \in 1..Len(potential_parties) : \E i \in 1..Len(parties) :
           /\ NormalizeName(potential_parties[k]) # parties[i].name
           /\ Contains(NormalizeName(potential_parties[k]), parties[i].name)

\* The candidates extract_parties would accept on their own.
Acceptable(name) == ~IsFalsePositive(name) /\ Len(name) > 5

PartyNames == {parties[i].name : i \in 1..Len(parties)}

\* C9: whenever two candidate names are in a substring relation, the returned
\* list keeps the longer name and not the shorter one, whichever came first.
C9_LongerNameWins ==
    pc = "parties_returned" =>
        \A k, l \in 1..Len(potential_parties) :
            LET short == NormalizeName(potential_parties[k])
                long == NormalizeName(potential_parties[l])
            IN  (short # long /\ Contains(long, short) /\ Acceptable(long))
                    => short \notin PartyNames

(***************************************************************************)
(* Metadata Resolver: the parties of extract_contract_metadata             *)
(* (src/src/extract/metadata.py).                                          *)
(***************************************************************************)

MaxMetaOrgs == 3

\* entities["ORG"] of lines 75-85: stripped words longer than one character.
RECURSIVE OrgEntities(_)
OrgEntities(words) ==
    IF words = <<>> THEN <<>>
    ELSE LET word == Strip(Head(words))
         IN  (IF word # "" /\ Len(word) > 1 THEN <<word>> ELSE <<>>)
             \o OrgEntities(Tail(words))

\* Lines 145-149: multi-word names with a legal suffix or a company term.
ValidPartyOrg(org) ==
    /\ WordCount(org) > 1
    /\ \/ ContainsAny(org, LegalSuffixes)
       \/ ContainsAny(Lower(org), {"company", "corporation", "technologies", "systems"})

\* Line 155.
MetaFalsePositive(party) ==
    ContainsAny(Lower(party), {"article", "section", "this agreement", "hereinafter"})

\* list.remove(x): the list without its element at index i.
RemoveAt(xs, i) == SubSeq(xs, 1, i - 1) \o SubSeq(xs, i + 1, Len(xs))

\* Lines 153-167 for one candidate: the inner loop stops at the first accepted
\* name that overlaps the candidate.
DedupStep(filtered, party) ==
    IF MetaFalsePositive(party) THEN filtered
    ELSE LET hits == {i \in 1..Len(filtered) :
                         Contains(filtered[i], party) \/ Contains(party, filtered[i])}
         IN  IF hits = {} THEN Append(filtered, party)
             ELSE LET i == CHOOSE h \in hits : \A g \in hits : h <= g
                  IN  IF Len(party) > Len(filtered[i])
                      THEN Append(RemoveAt(filtered, i), party)
                      ELSE filtered

InitMeta ==
    /\ pc = "meta_ner"
    /\ first_pages_text = "Each party agrees."
    /\ ner_out \in SeqsUpTo(OrgVocab, MaxMetaOrgs)
    /\ spacy_out = [ents |-> <<>>, noun_chunks |-> <<>>]
    /\ potential_parties = <<>>
    /\ idx = 1
    /\ seen_parties = {}
    /\ parties = <<>>
    /\ filtered_parties = <<>>
    /\ txt_lines = <<>>
    /\ articles = <<>>
    /\ OrchestratorIdle

\* Lines 140-149: the organisations that look like parties.
MetaFilterOrgs ==
    /\ pc = "meta_ner"
    /\ potential_parties' = SelectSeq(OrgEntities(ner_out), ValidPartyOrg)
    /\ pc' = "meta_dedup"
    /\ UNCHANGED <<first_pages_text, ner_out, spacy_out, idx, seen_parties, parties,
                   filtered_parties, txtVars, resolverVars>>

\* Lines 153-167: one iteration of the de-duplication loop.
MetaDedup ==
    /\ pc = "meta_dedup"
    /\ idx <= Len(potential_parties)
    /\ filtered_parties' = DedupStep(filtered_parties, potential_parties[idx])
    /\ idx' = idx + 1
    /\ UNCHANGED <<pc, first_pages_text, ner_out, spacy_out, potential_parties,
                   seen_parties, parties, txtVars, resolverVars>>

\* Line 169: the loop is over and the first five names become metadata["parties"].
MetaParties ==
    /\ pc = "meta_dedup"
    /\ idx > Len(potential_parties)
    /\ parties' = SubSeq(filtered_parties, 1, IF Len(filtered_parties) < 5
                                               THEN Len(filtered_parties) ELSE 5)
    /\ pc' = "meta_parties_set"
    /\ UNCHANGED <<first_pages_text, ner_out, spacy_out, potential_parties, idx,
                   seen_parties, filtered_parties, txtVars, resolverVars>>

NextMeta == MetaFilterOrgs \/ MetaDedup \/ MetaParties

SpecMeta == InitMeta /\ [][NextMeta]_vars

\* C10: after the de-duplication loop the accepted names contain no two names
\* where one is a substring of the other, also when a candidate overlaps
\* several accepted names.
C10_AcceptedNoSubstring ==
    pc = "meta_parties_set" =>
        \A i, j \in 1..Len(filtered_parties) :
            i # j => ~Contains(filtered_parties[i], filtered_parties[j])


\* ---------------------------------------------------------------------------
\* Plain-text extraction (src/src/extract/txt_parser.py).  A text is held as
\* its lines; the string the functions receive is the lines joined by "\n".
\* ---------------------------------------------------------------------------

Letters ==
    {"A","B","C","D","E","F","G","H","I","J","K","L","M","N","O","P","Q","R","S",
     "T","U","V","W","X","Y","Z","a","b","c","d","e","f","g","h","i","j","k","l",
     "m","n","o","p","q","r","s","t","u","v","w","x","y","z"}

Digits == {"0","1","2","3","4","5","6","7","8","9"}

IsLetter(c) == c \in Letters

IsWordChar(c) == c \in Letters \cup Digits \cup {"_"}

\* The characters of the class [A-Za-z\s].
IsTitleChar(c) == IsLetter(c) \/ IsSpace(c)

UpperChar(c) ==
    CASE c = "a" -> "A" [] c = "b" -> "B" [] c = "c" -> "C" [] c = "d" -> "D"
      [] c = "e" -> "E" [] c = "f" -> "F" [] c = "g" -> "G" [] c = "h" -> "H"
      [] c = "i" -> "I" [] c = "j" -> "J" [] c = "k" -> "K" [] c = "l" -> "L"
      [] c = "m" -> "M" [] c = "n" -> "N" [] c = "o" -> "O" [] c = "p" -> "P"
      [] c = "q" -> "Q" [] c = "r" -> "R" [] c = "s" -> "S" [] c = "t" -> "T"
      [] c = "u" -> "U" [] c = "v" -> "V" [] c = "w" -> "W" [] c = "x" -> "X"
      [] c = "y" -> "Y" [] c = "z" -> "Z" [] OTHER -> c

RECURSIVE Upper(_)
Upper(s) == IF s = "" THEN "" ELSE UpperChar(CharAt(s, 1)) \o Upper(SubSeq(s, 2, Len(s)))

\* str.isupper(): some cased character, and no lower-case one.
IsUpperStr(s) ==
    /\ \E i \in 1..Len(s) : LowerChar(CharAt(s, i)) # CharAt(s, i)
    /\ \A i \in 1..Len(s) : UpperChar(CharAt(s, i)) = CharAt(s, i)

\* Python's s[a:b] with 0-based, end-exclusive offsets.
Slice(s, a, b) ==
    LET e == IF b > Len(s) THEN Len(s) ELSE b
    IN  IF e <= a THEN "" ELSE SubSeq(s, a + 1, e)

RECURSIVE JoinLines(_)
JoinLines(lines) ==
    IF lines = <<>> THEN ""
    ELSE IF Len(lines) = 1 THEN lines[1]
    ELSE lines[1] \o "\n" \o JoinLines(Tail(lines))

\* 0-based offset of the first character of line i in JoinLines(lines).
RECURSIVE LineStart(_, _)
LineStart(lines, i) ==
    IF i = 1 THEN 0 ELSE LineStart(lines, i - 1) + Len(lines[i - 1]) + 1

\* First index >= i of s whose character is not in cls (Len(s) + 1 if none).
RECURSIVE RunEnd(_, _, _)
RunEnd(s, i, cls) ==
    IF i <= Len(s) /\ CharAt(s, i) \in cls THEN RunEnd(s, i + 1, cls) ELSE i

LineSpaces == {" ", "\t"}

ROMAN_TO_NUMBER(num) ==
    CASE num = "I" -> "1" [] num = "II" -> "2" [] num = "III" -> "3"
      [] num = "IV" -> "4" [] num = "V" -> "5" [] num = "VI" -> "6"
      [] num = "VII" -> "7" [] num = "VIII" -> "8" [] num = "IX" -> "9"
      [] num = "X" -> "10" [] num = "XI" -> "11" [] num = "XII" -> "12"
      [] num = "XIII" -> "13" [] num = "XIV" -> "14" [] num = "XV" -> "15"
      [] num = "XVI" -> "16" [] num = "XVII" -> "17" [] num = "XVIII" -> "18"
      [] num = "XIX" -> "19" [] num = "XX" -> "20" [] OTHER -> num

\* ROMAN_TO_NUMBER.get(article_num.upper(), article_num): the key is the
\* number in upper case.
NumericIdExactCase(num) == ROMAN_TO_NUMBER(num)

NumericId(num) ==
    LET r == ROMAN_TO_NUMBER(Upper(num))
    IN  IF r = Upper(num) THEN num ELSE r

\* s[i .. i + Len(word) - 1] is word, compared without regard to case.
WordAt(s, i, word) ==
    /\ i + Len(word) - 1 <= Len(s)
    /\ \A k \in 1..Len(word) : LowerChar(CharAt(s, i + k - 1)) = LowerChar(CharAt(word, k))

NoMatch == [number |-> "", title |-> "", start |-> -1, end |-> -1]

\* A header  KEYWORD\s+(num+)<gap>[seps]\s*(.*?)(?=$|\n)  tried at index `at`
\* of one line whose first character is at offset `off` of the text: the
\* keyword (in any case when ic), the number, the separator, and the rest of
\* the line as the title.  gap says whether \s* may stand before the separator.
KeywordHeader(line, off, at, keyword, numChars, gap, seps, ic) ==
    LET kwEnd == at + Len(keyword)
        n0    == RunEnd(line, kwEnd, LineSpaces)
        n1    == RunEnd(line, n0, numChars)
        s0    == IF gap THEN RunEnd(line, n1, LineSpaces) ELSE n1
        t0    == RunEnd(line, s0 + 1, LineSpaces)
    IN  IF /\ kwEnd - 1 <= Len(line)
           /\ (IF ic THEN WordAt(line, at, keyword) ELSE SubSeq(line, at, kwEnd - 1) = keyword)
           /\ n0 > kwEnd
           /\ n1 > n0
           /\ s0 <= Len(line)
           /\ CharAt(line, s0) \in seps
        THEN [number |-> SubSeq(line, n0, n1 - 1),
              title  |-> Strip(SubSeq(line, t0, Len(line))),
              start  |-> off + at - 1,
              end    |-> off + Len(line)]
        ELSE NoMatch

\* re.finditer of a keyword header over the text: the leftmost match of each
\* line (a match runs to the end of its line).
RECURSIVE KeywordMatches(_, _, _, _, _, _, _)
KeywordMatches(lines, i, keyword, numChars, gap, seps, ic) ==
    IF i > Len(lines) THEN <<>>
    ELSE LET line == lines[i]
             off  == LineStart(lines, i)
             hits == {at \in 1..Len(line) :
                         KeywordHeader(line, off, at, keyword, numChars, gap, seps, ic) # NoMatch}
             rest == KeywordMatches(lines, i + 1, keyword, numChars, gap, seps, ic)
         IN  IF hits = {} THEN rest
             ELSE LET at == CHOOSE a \in hits : \A b \in hits : a <= b
                  IN  <<KeywordHeader(line, off, at, keyword, numChars, gap, seps, ic)>> \o rest

\* A line made of letters and whitespace only.
PureLine(line) == \A p \in 1..Len(line) : IsTitleChar(CharAt(line, p))

\* First index of the run of letters and whitespace that ends the line
\* (Len(line) + 1 if the line does not end in one), scanning back from p.
RECURSIVE PureTailStart(_, _)
PureTailStart(line, p) ==
    IF p >= 1 /\ IsTitleChar(CharAt(line, p)) THEN PureTailStart(line, p - 1) ELSE p + 1

\* [A-Z] under the flags of the search: any letter under IGNORECASE.
IsHeadChar(c, ic) == IsLetter(c) /\ (ic \/ UpperChar(c) = c)

\* Index of the first [A-Z] from which the line holds only letters and
\* whitespace up to its end (0 if there is none).
TitleRunStart(line, ic) ==
    LET tail   == PureTailStart(line, Len(line))
        starts == {p \in tail..Len(line) : IsHeadChar(CharAt(line, p), ic)}
    IN  IF starts = {} THEN 0 ELSE CHOOSE p \in starts : \A q \in starts : p <= q

\* The last line a greedy [A-Za-z\s]+ begun in line i runs through, when its
\* match must stop in front of a newline: the lines after i are taken while
\* they are pure and are not the last line.
RECURSIVE LastAbsorbed(_, _)
LastAbsorbed(lines, k) ==
    IF k + 1 < Len(lines) /\ PureLine(lines[k + 1])
    THEN LastAbsorbed(lines, k + 1) ELSE k

\* ARTICLE_PATTERNS[3], ([A-Z][A-Za-z\s]+)\s*\n : one group only, so the
\* title is "UNTITLED" and the number is the matched run.
RECURSIVE BareLineMatches(_, _, _)
BareLineMatches(lines, i, ic) ==
    IF i >= Len(lines) THEN <<>>
    ELSE LET p     == TitleRunStart(lines[i], ic)
             k     == LastAbsorbed(lines, i)
             start == LineStart(lines, i) + p - 1
             stop  == LineStart(lines, k) + Len(lines[k])
         IN  IF p > 0 /\ stop - start >= 2
             THEN <<[number |-> Slice(JoinLines(lines), start, stop),
                     title  |-> "UNTITLED",
                     start  |-> start,
                     end    |-> stop + 1]>> \o BareLineMatches(lines, k + 1, ic)
             ELSE BareLineMatches(lines, i + 1, ic)

\* First line after j that holds something other than spaces (0 if none).
RECURSIVE NextInkedLine(_, _)
NextInkedLine(lines, j) ==
    IF j + 1 > Len(lines) THEN 0
    ELSE IF RunEnd(lines[j + 1], 1, LineSpaces) <= Len(lines[j + 1]) THEN j + 1
    ELSE NextInkedLine(lines, j + 1)

\* The last line a greedy [A-Za-z\s]+ begun in line k runs through when it
\* may also stop at the end of the text.
RECURSIVE LastPure(_, _)
LastPure(lines, k) ==
    IF k + 1 <= Len(lines) /\ PureLine(lines[k + 1]) THEN LastPure(lines, k + 1) ELSE k

\* ARTICLE_PATTERNS[2], (\d+)\.\s*([A-Z][A-Za-z\s]+)(?=$|\n), tried at index
\* `at` of line i.  \s* may run over line ends to the title's first letter.
NumberedHeader(lines, i, at, ic) ==
    LET line == lines[i]
        n1   == RunEnd(line, at, Digits)
        w    == RunEnd(line, n1 + 1, LineSpaces)
        j    == IF w <= Len(line) THEN i ELSE NextInkedLine(lines, i)
        c    == IF j = i THEN w ELSE IF j = 0 THEN 0 ELSE RunEnd(lines[j], 1, LineSpaces)
        k    == IF j = 0 THEN 0 ELSE LastPure(lines, j)
        from == IF j = 0 THEN 0 ELSE LineStart(lines, j) + c - 1
        stop == IF j = 0 THEN 0 ELSE LineStart(lines, k) + Len(lines[k])
    IN  IF /\ n1 > at
           /\ n1 <= Len(line)
           /\ CharAt(line, n1) = "."
           /\ j > 0
           /\ IsHeadChar(CharAt(lines[j], c), ic)
           /\ \A q \in c..Len(lines[j]) : IsTitleChar(CharAt(lines[j], q))
           /\ stop - from >= 2
        THEN [number |-> SubSeq(line, at, n1 - 1),
              title  |-> Strip(Slice(JoinLines(lines), from, stop)),
              start  |-> LineStart(lines, i) + at - 1,
              end    |-> stop]
        ELSE NoMatch

RECURSIVE NumberedMatches(_, _, _)
NumberedMatches(lines, i, ic) ==
    IF i > Len(lines) THEN <<>>
    ELSE LET hits == {at \in 1..Len(lines[i]) : NumberedHeader(lines, i, at, ic) # NoMatch}
         IN  IF hits = {} THEN NumberedMatches(lines, i + 1, ic)
             ELSE LET at == CHOOSE a \in hits : \A b \in hits : a <= b
                      m  == NumberedHeader(lines, i, at, ic)
                      k  == CHOOSE l \in i..Len(lines) :
                                LineStart(lines, l) + Len(lines[l]) = m.end
                  IN  <<m>> \o NumberedMatches(lines, k + 1, ic)

ArticleSeparators == {"-", ".", ":"}

\* for pattern in ARTICLE_PATTERNS: re.finditer(pattern, text, re.MULTILINE
\* [| re.IGNORECASE]) -- the matches of the five patterns, pattern after pattern.
AllPatternMatches(lines, ic) ==
    KeywordMatches(lines, 1, "ARTICLE", {"I", "V", "X", "i", "v", "x"}, TRUE,
                   ArticleSeparators, ic)
    \o KeywordMatches(lines, 1, "ARTICLE", Digits, TRUE, ArticleSeparators, ic)
    \o NumberedMatches(lines, 1, ic)
    \o BareLineMatches(lines, 1, ic)
    \o KeywordMatches(lines, 1, "SECTION", Digits, FALSE, {".", ":"}, ic)

\* list.sort(key=lambda x: x["start"]): a stable sort.
RECURSIVE InsertByStart(_, _)
InsertByStart(sorted, m) ==
    IF sorted = <<>> THEN <<m>>
    ELSE IF Head(sorted).start <= m.start
         THEN <<Head(sorted)>> \o InsertByStart(Tail(sorted), m)
         ELSE <<m>> \o sorted

RECURSIVE SortByStart(_)
SortByStart(ms) ==
    IF ms = <<>> THEN <<>>
    ELSE InsertByStart(SortByStart(SubSeq(ms, 1, Len(ms) - 1)), ms[Len(ms)])

\* txt_parser.py lines 31-44: the matches of all five patterns, by position.
ArticleMatches(lines) == SortByStart(AllPatternMatches(lines, TRUE))

\* txt_parser.py lines 47-74: one Article per match, its content the text up
\* to the next match.  (The sections found inside the content are not part of
\* the record here.)
ArticlesOfMatches(text, ms) ==
    [i \in 1..Len(ms) |->
        [number     |-> ms[i].number,
         numeric_id |-> NumericId(ms[i].number),
         title      |-> ms[i].title,
         content    |-> Strip(Slice(text, ms[i].end,
                             IF i < Len(ms) THEN ms[i + 1].start ELSE Len(text)))]]

extract_articles_from_text(lines) == ArticlesOfMatches(JoinLines(lines), ArticleMatches(lines))

\* re.search(r"(?i)\bword\b", text): the word between two word boundaries.
HasWord(text, word) ==
    \E i \in 1..(Len(text) - Len(word) + 1) :
        /\ WordAt(text, i, word)
        /\ (i = 1 \/ ~IsWordChar(CharAt(text, i - 1)))
        /\ (i + Len(word) > Len(text) \/ ~IsWordChar(CharAt(text, i + Len(word))))

\* txt_parser.py lines 127-135.
TextDocumentType(text) ==
    LET head == Slice(text, 0, 1000)
    IN  IF HasWord(head, "agreement") THEN "Agreement"
        ELSE IF HasWord(head, "contract") THEN "Contract"
        ELSE IF HasWord(head, "amendment") THEN "Amendment"
        ELSE IF HasWord(head, "addendum") THEN "Addendum"
        ELSE "Unknown"

\* txt_parser.py lines 138-139: the stripped lines that are not blank.
RECURSIVE NonEmptyLines(_)
NonEmptyLines(lines) ==
    IF lines = <<>> THEN <<>>
    ELSE IF Strip(lines[1]) = "" THEN NonEmptyLines(Tail(lines))
    ELSE <<Strip(lines[1])>> \o NonEmptyLines(Tail(lines))

FirstN(xs, n) == SubSeq(xs, 1, IF Len(xs) < n THEN Len(xs) ELSE n)

AgreementTypes ==
    {"service", "employment", "non-disclosure", "confidentiality", "sale", "purchase",
     "master", "subscription", "consulting", "license", "partnership", "distribution",
     "supply"}

\* Every all-caps line of 2 to 15 words scored alike.
CapsTitleScoreFlat(line) ==
    IF IsUpperStr(line) /\ WordCount(line) >= 2 /\ WordCount(line) <= 15 THEN 5
    ELSE IF ContainsAny(Upper(line), {"AGREEMENT", "CONTRACT", "LICENSE"}) THEN 8
    ELSE 0

\* txt_parser.py lines 145-155: score of a line as an all-caps or keyword title
\* (0: the line is no candidate).
CapsTitleScore(line) ==
    IF IsUpperStr(line) /\ WordCount(line) >= 2 /\ WordCount(line) <= 15
    THEN IF ContainsAny(line, {"AGREEMENT", "CONTRACT", "LICENSE", "LEASE"}) THEN 10 ELSE 5
    ELSE IF ContainsAny(Upper(line), {"AGREEMENT", "CONTRACT", "LICENSE"}) THEN 8
    ELSE 0

\* txt_parser.py lines 162-167.
TypedTitleScore(line) ==
    IF \E term \in AgreementTypes : Contains(Lower(line), term \o " agreement") THEN 9
    ELSE IF Contains(Lower(line), "agreement") /\ WordCount(line) <= 10 THEN 7
    ELSE 0

RECURSIVE ScoredTitles(_, _)
ScoredTitles(ls, typed) ==
    IF ls = <<>> THEN <<>>
    ELSE LET sc == IF typed THEN TypedTitleScore(ls[1]) ELSE CapsTitleScore(ls[1])
         IN  (IF sc > 0 THEN <<<<ls[1], sc>>>> ELSE <<>>) \o ScoredTitles(Tail(ls), typed)

BestTitleNoDefault(pots, nel) ==
    IF pots # <<>>
    THEN pots[CHOOSE i \in 1..Len(pots) :
                  /\ \A j \in 1..Len(pots) : pots[j][2] <= pots[i][2]
                  /\ \A j \in 1..(i - 1) : pots[j][2] < pots[i][2]][1]
    ELSE IF nel # <<>> THEN nel[1]
    ELSE ""

\* txt_parser.py lines 119 and 169-175: the first candidate of the highest
\* score, else the first non-empty line, else the default of line 119.
BestTitle(pots, nel) ==
    IF pots # <<>>
    THEN pots[CHOOSE i \in 1..Len(pots) :
                  /\ \A j \in 1..Len(pots) : pots[j][2] <= pots[i][2]
                  /\ \A j \in 1..(i - 1) : pots[j][2] < pots[i][2]][1]
    ELSE IF nel # <<>> THEN nel[1]
    ELSE "Untitled Contract"

PotentialTitles(nel) ==
    ScoredTitles(FirstN(nel, 10), FALSE) \o ScoredTitles(FirstN(nel, 15), TRUE)

\* txt_parser.py lines 141-175.
TextTitle(lines) == BestTitle(PotentialTitles(NonEmptyLines(lines)), NonEmptyLines(lines))

Whitespace == {" ", "\t", "\n"}

WordChars == Letters \cup Digits \cup {"_"}

\* End (exclusive) of a date  \w+\s+\d{1,2}(?:st|nd|rd|th)?[\s,]+\d{4}  that
\* starts at index p of s; 0 if none starts there.
MonthDateEnd(s, p) ==
    LET w1 == RunEnd(s, p, WordChars)
        s1 == RunEnd(s, w1, Whitespace)
        d1 == RunEnd(s, s1, Digits)
        o1 == IF \E x \in {"st", "nd", "rd", "th"} : WordAt(s, d1, x) THEN d1 + 2 ELSE d1
        g1 == RunEnd(s, o1, Whitespace \cup {","})
        y1 == RunEnd(s, g1, Digits)
    IN  IF w1 > p /\ s1 > w1 /\ d1 - s1 \in {1, 2} /\ g1 > o1 /\ y1 - g1 >= 4
        THEN g1 + 4 ELSE 0

\* The same for  \d{1,2}[/.-]\d{1,2}[/.-]\d{2,4} .
NumericDateEnd(s, p) ==
    LET a1 == RunEnd(s, p, Digits)
        b1 == RunEnd(s, a1 + 1, Digits)
        c1 == RunEnd(s, b1 + 1, Digits)
    IN  IF /\ a1 - p \in {1, 2}
           /\ a1 <= Len(s) /\ CharAt(s, a1) \in {"/", ".", "-"}
           /\ b1 - (a1 + 1) \in {1, 2}
           /\ b1 <= Len(s) /\ CharAt(s, b1) \in {"/", ".", "-"}
           /\ c1 - (b1 + 1) >= 2
        THEN (IF c1 - (b1 + 1) > 4 THEN b1 + 5 ELSE c1) ELSE 0

FirstPositive(a, b) == IF a > 0 THEN a ELSE b

DateEnd(s, p) == FirstPositive(MonthDateEnd(s, p), NumericDateEnd(s, p))

\* Index where the date starts when
\*   effective\s+(?:as\s+of\s+)?(?:date|:)?\s*[:;]?\s*(<date>)
\* is tried at index `at` (each optional part is taken when present); 0 if the
\* prefix does not match there.
EffectiveDateStart(s, at) ==
    LET e  == at + 9
        x0 == RunEnd(s, e, Whitespace)
        a1 == RunEnd(s, x0 + 2, Whitespace)
        a2 == RunEnd(s, a1 + 2, Whitespace)
        x1 == IF WordAt(s, x0, "as") /\ a1 > x0 + 2 /\ WordAt(s, a1, "of") /\ a2 > a1 + 2
              THEN a2 ELSE x0
        x2 == IF WordAt(s, x1, "date") THEN x1 + 4
              ELSE IF WordAt(s, x1, ":") THEN x1 + 1 ELSE x1
        x3 == RunEnd(s, x2, Whitespace)
        x4 == IF x3 <= Len(s) /\ CharAt(s, x3) \in {":", ";"} THEN x3 + 1 ELSE x3
    IN  IF WordAt(s, at, "effective") /\ x0 > e THEN RunEnd(s, x4, Whitespace) ELSE 0

\* The same for  (?:executed|signed|dated)(?:\s+as\s+of)?\s+(?:this)?\s*(<date>) .
ExecutionDateStart(s, at) ==
    LET kw == IF WordAt(s, at, "executed") THEN 8
              ELSE IF WordAt(s, at, "signed") THEN 6
              ELSE IF WordAt(s, at, "dated") THEN 5 ELSE 0
        e  == at + kw
        x0 == RunEnd(s, e, Whitespace)
        a1 == RunEnd(s, x0 + 2, Whitespace)
        x1 == IF x0 > e /\ WordAt(s, x0, "as") /\ a1 > x0 + 2 /\ WordAt(s, a1, "of")
              THEN a1 + 2 ELSE e
        x2 == RunEnd(s, x1, Whitespace)
        x3 == IF WordAt(s, x2, "this") THEN x2 + 4 ELSE x2
    IN  IF kw > 0 /\ x2 > x1 THEN RunEnd(s, x3, Whitespace) ELSE 0

\* s[from .. end - 1], or "" when there is no match (from or end is 0).
GroupText(s, from, end) == IF from = 0 \/ end = 0 THEN "" ELSE SubSeq(s, from, end - 1)

DateFrom(s, from) == GroupText(s, from, IF from = 0 THEN 0 ELSE DateEnd(s, from))

\* Group 1 of a date pattern tried at index `at` ("" if it does not match).
DateMatchAt(s, at, effective) ==
    DateFrom(s, IF effective THEN EffectiveDateStart(s, at) ELSE ExecutionDateStart(s, at))

Least(S) == CHOOSE a \in S : \A b \in S : a <= b

\* re.search of a date pattern: group 1 of the leftmost match, stripped ("" if
\* the pattern matches nowhere).
SearchDate(s, effective) ==
    IF \E at \in 1..Len(s) : DateMatchAt(s, at, effective) # ""
    THEN Strip(DateMatchAt(s, Least({at \in 1..Len(s) : DateMatchAt(s, at, effective) # ""}),
                           effective))
    ELSE ""

\* txt_parser.py lines 117-208 ("parties" is not part of the record here).
extract_contract_metadata_from_text(lines) ==
    [title          |-> TextTitle(lines),
     document_type  |-> TextDocumentType(JoinLines(lines)),
     execution_date |-> SearchDate(JoinLines(lines), FALSE),
     effective_date |-> SearchDate(JoinLines(lines), TRUE)]

\* ---------------------------------------------------------------------------
\* The structured Segmenters: src/src/extract/articles.py and the earlier
\* src/extract/articles.py.  Their second pass (content and sections) assigns
\* fields of the Articles found and neither adds nor removes an Article; the
\* records below hold what the first pass decides (number, numeric_id, title).
\* ---------------------------------------------------------------------------

HeaderArticle(m) ==
    [number |-> m.number, numeric_id |-> NumericId(m.number), title |-> m.title]

\* articles.py (src/src) lines 52-79 for one entity word, ms being the matches
\* of the patterns on it: a pattern matching at the start of the word (line 54)
\* or "ARTICLE" in it, and the first pattern that matches anywhere (line 63).
EntityArticle(word, ms) ==
    IF /\ Contains(Upper(word), "ARTICLE") \/ \E i \in 1..Len(ms) : ms[i].start = 0
       /\ ms # <<>>
    THEN <<HeaderArticle(ms[1])>> ELSE <<>>

\* articles.py (src/src) lines 42-79: the entities that look like an Article
\* header, each turned into an Article by the first pattern that matches it.
RECURSIVE FromStructureEntities(_)
FromStructureEntities(words) ==
    IF words = <<>> THEN <<>>
    ELSE EntityArticle(words[1], AllPatternMatches(<<words[1]>>, TRUE))
         \o FromStructureEntities(Tail(words))

\* re.match(r"ARTICLE|Article|Section|\d+\.\s*[A-Z]", sent.text)
LooksLikeHeader(text) ==
    \/ Len(text) >= 7 /\ SubSeq(text, 1, 7) \in {"ARTICLE", "Article", "Section"}
    \/ LET d == RunEnd(text, 1, Digits)
           w == RunEnd(text, d + 1, Whitespace)
       IN  /\ d > 1 /\ d <= Len(text) /\ CharAt(text, d) = "."
           /\ w <= Len(text) /\ IsHeadChar(CharAt(text, w), FALSE)

\* articles.py (src/src) lines 114-121: a short all-caps sentence becomes
\* Article "1" while no Article has been found.
CapsFallback(acc, text) ==
    IF acc = <<>> /\ IsUpperStr(text) /\ WordCount(text) < 8
    THEN <<[number |-> "1", numeric_id |-> "1", title |-> Strip(text)]>>
    ELSE acc

\* articles.py (src/src) lines 90-111 for one sentence, ms being the matches
\* of the patterns on it.
SentenceArticle(acc, text, ms) ==
    IF (IsUpperStr(text) \/ LooksLikeHeader(text)) /\ ms # <<>>
    THEN Append(acc, HeaderArticle(ms[1])) ELSE acc

\* articles.py (src/src) lines 88-121: the sentences, in order.
RECURSIVE FromSentences(_, _)
FromSentences(acc, sents) ==
    IF sents = <<>> THEN acc
    ELSE FromSentences(
            CapsFallback(SentenceArticle(acc, sents[1], AllPatternMatches(<<sents[1]>>, FALSE)),
                         sents[1]),
            Tail(sents))

IsInt(s) == s # "" /\ \A i \in 1..Len(s) : CharAt(s, i) \in Digits

DigitValue(c) ==
    CASE c = "0" -> 0 [] c = "1" -> 1 [] c = "2" -> 2 [] c = "3" -> 3 [] c = "4" -> 4
      [] c = "5" -> 5 [] c = "6" -> 6 [] c = "7" -> 7 [] c = "8" -> 8 [] c = "9" -> 9

RECURSIVE ToInt(_)
ToInt(s) == IF s = "" THEN 0 ELSE 10 * ToInt(SubSeq(s, 1, Len(s) - 1)) + DigitValue(CharAt(s, Len(s)))

RECURSIVE InsertById(_, _)
InsertById(sorted, a) ==
    IF sorted = <<>> THEN <<a>>
    ELSE IF ToInt(Head(sorted).numeric_id) <= ToInt(a.numeric_id)
         THEN <<Head(sorted)>> \o InsertById(Tail(sorted), a)
         ELSE <<a>> \o sorted

RECURSIVE SortedById(_)
SortedById(as) ==
    IF as = <<>> THEN <<>>
    ELSE InsertById(SortedById(SubSeq(as, 1, Len(as) - 1)), as[Len(as)])

\* articles.sort(key=lambda x: int(x["numeric_id"])) inside try/except: the
\* order is kept when some numeric_id is not an integer.
SortArticles(as) ==
    IF \A i \in 1..Len(as) : IsInt(as[i].numeric_id) THEN SortedById(as) ELSE as

FirstNonEmpty(a, b) == IF a # <<>> THEN a ELSE b

\* src/src/extract/articles.py, first pass.
FirstPass(words, sents) ==
    SortArticles(FirstNonEmpty(FromStructureEntities(words), FromSentences(<<>>, sents)))

\* str.find: 0-based offset of the first occurrence, -1 if there is none.
Find(text, sub) ==
    LET hits == {i \in 1..(Len(text) - Len(sub) + 1) : SubSeq(text, i, i + Len(sub) - 1) = sub}
    IN  IF hits = {} THEN -1 ELSE (CHOOSE i \in hits : \A j \in hits : i <= j) - 1

\* Offset of the leftmost match of  ARTICLE\s+<number>|Article\s+<number>  (and
\* |<title> when withTitle) in text under IGNORECASE; -1 if there is none.
HeaderOffset(text, number, title, withTitle) ==
    LET Hit(i) == \/ /\ WordAt(text, i, "article")
                     /\ RunEnd(text, i + 7, Whitespace) > i + 7
                     /\ WordAt(text, RunEnd(text, i + 7, Whitespace), number)
                  \/ withTitle /\ WordAt(text, i, title)
        hits == {i \in 1..(Len(text) + 1) : Hit(i)}
    IN  IF hits = {} THEN -1 ELSE (CHOOSE i \in hits : \A j \in hits : i <= j) - 1

\* articles.py (src/src) lines 134-151: where the text of Article i starts, found
\* being the offset of its header (-1: not found).
ArticleStartIdx(text, as, i, found) ==
    IF found # -1 THEN found
    ELSE IF i = 1 THEN 0
    ELSE IF Find(text, as[i - 1].title) > 0
         THEN Find(text, as[i - 1].title) + Len(as[i - 1].title)
         ELSE Find(text, as[i - 1].title)

\* articles.py (src/src) lines 154-161: where it ends, next being the offset of
\* the next Article's header in text[start:] (-1: not found, or no next one).
ArticleEndIdx(text, start, next) == IF next # -1 THEN start + next ELSE Len(text)

NextHeaderOffset(text, as, i, start) ==
    IF i < Len(as)
    THEN HeaderOffset(Slice(text, start, Len(text)), as[i + 1].number, as[i + 1].title, TRUE)
    ELSE -1

\* articles.py (src/src) lines 164-172: an Article whose text is empty makes
\* range(0, 0, 0) raise ValueError.
EmptyArticleText(text, as, i, start) ==
    start >= 0 /\ ArticleEndIdx(text, start, NextHeaderOffset(text, as, i, start)) <= start

SecondPassRaises(text, as) ==
    \E i \in 1..Len(as) :
        EmptyArticleText(text, as, i,
            ArticleStartIdx(text, as, i,
                HeaderOffset(text, as[i].number, as[i].title, as[i].title # "")))

RaisesOr(raises, result) == IF raises THEN "raises" ELSE result

\* src/src/extract/articles.py: the Articles returned, or "raises".
SecondPass(text, found) == RaisesOr(SecondPassRaises(text, found), found)

extract_articles(lines, words, sents) == SecondPass(JoinLines(lines), FirstPass(words, sents))

RECURSIVE ToArticles(_)
ToArticles(ms) ==
    IF ms = <<>> THEN <<>> ELSE <<HeaderArticle(ms[1])>> \o ToArticles(Tail(ms))

\* src/extract/articles.py lines 70-72: every short all-caps sentence.
RECURSIVE CapsSentences(_, _)
CapsSentences(acc, sents) ==
    IF sents = <<>> THEN acc
    ELSE CapsSentences(
            IF IsUpperStr(sents[1]) /\ WordCount(sents[1]) < 8
            THEN Append(acc, [number |-> ToString(Len(acc) + 1),
                              numeric_id |-> ToString(Len(acc) + 1),
                              title |-> Strip(sents[1])])
            ELSE acc,
            Tail(sents))

DefaultArticle == <<[number |-> "1", numeric_id |-> "1", title |-> "CONTRACT TEXT"]>>

\* src/extract/articles.py, first pass: the pattern matches (lines 44-60), else
\* the all-caps sentences (lines 63-72), else the default Article (lines 75-77).
legacy_extract_articles(lines, sents) ==
    SortArticles(
        FirstNonEmpty(
            FirstNonEmpty(ToArticles(AllPatternMatches(lines, FALSE)),
                          CapsSentences(<<>>, sents)),
            DefaultArticle))

\* ---------------------------------------------------------------------------
\* The three Segmenters applied to one document.
\* ---------------------------------------------------------------------------

MaxLines == 3

LineVocab ==
    {"", "SERVICE AGREEMENT", "ARTICLE I - DEFINITIONS", "The Term means...",
     "Effective Date: April 29, 2025", "the parties agree as follows."}

RECURSIVE NonBlank(_)
NonBlank(lines) ==
    IF lines = <<>> THEN <<>>
    ELSE (IF Strip(lines[1]) = "" THEN <<>> ELSE <<lines[1]>>) \o NonBlank(Tail(lines))

\* What the annotation services may answer for a document: the header-like
\* entity words (entity_group ORG or LAW), and the sentences.
EntityAnswers(lines) == {<<>>} \cup {<<lines[i]>> : i \in {j \in 1..Len(lines) : Strip(lines[j]) # ""}}

SentenceAnswers(lines) == {<<>>, NonBlank(lines)}

InitSeg ==
    /\ pc = "seg_input"
    /\ txt_lines \in SeqsUpTo(LineVocab, MaxLines)
    /\ ner_out \in EntityAnswers(txt_lines)
    /\ spacy_out \in [ents : {<<>>}, noun_chunks : {<<>>}, sents : SentenceAnswers(txt_lines)]
    /\ first_pages_text = ""
    /\ potential_parties = <<>>
    /\ idx = 1
    /\ seen_parties = {}
    /\ parties = <<>>
    /\ filtered_parties = <<>>
    /\ articles = <<>>
    /\ OrchestratorIdle

segFrame == <<first_pages_text, ner_out, spacy_out, potential_parties, idx, seen_parties,
              parties, filtered_parties, txt_lines, json_data, txt_file, json_success,
              processed_data, structured, resolverVars>>

\* extract_articles_from_text(text)
SegmentText ==
    /\ pc = "seg_input"
    /\ articles' = extract_articles_from_text(txt_lines)
    /\ pc' = "seg_text_returned"
    /\ UNCHANGED segFrame

\* extract_articles(data, nlp, contractbert_ner) of src/src/extract
SegmentStructured ==
    /\ pc = "seg_input"
    /\ LET result == extract_articles(txt_lines, ner_out, spacy_out.sents)
       IN  IF result = "raises"
           THEN pc' = "seg_structured_raised" /\ UNCHANGED articles
           ELSE pc' = "seg_structured_returned" /\ articles' = result
    /\ UNCHANGED segFrame

\* extract_articles(data, nlp) of src/extract
SegmentLegacy ==
    /\ pc = "seg_input"
    /\ articles' = legacy_extract_articles(txt_lines, spacy_out.sents)
    /\ pc' = "seg_legacy_returned"
    /\ UNCHANGED segFrame

NextSeg == SegmentText \/ SegmentStructured \/ SegmentLegacy

SpecSeg == InitSeg /\ [][NextSeg]_vars

\* C1: for every document and every answer of the annotation services, each
\* Segmenter (extract_articles of src/src/extract, extract_articles of
\* src/extract, extract_articles_from_text) returns a non-empty Article list.
C1_SegmenterNonEmpty ==
    pc \in {"seg_text_returned", "seg_structured_returned", "seg_legacy_returned"}
        => articles # <<>>

\* ---------------------------------------------------------------------------
\* The fallback orchestrator: process_with_fallback of src/src/json_to_neo4j.py.
\* ---------------------------------------------------------------------------

\* The page texts of the JSON files considered.
JsonPages ==
    {<<>>, <<"">>, <<"", "">>, <<"ARTICLE I - DEFINITIONS">>,
     <<"", "ARTICLE I - DEFINITIONS">>}

\* kind "invalid": open or json.load raises; "no_pages": no "pages" key.
JsonFiles ==
    {[kind |-> "invalid", pages |-> <<>>], [kind |-> "no_pages", pages |-> <<>>]}
        \cup {[kind |-> "pages", pages |-> ps] : ps \in JsonPages}

\* txt_file: "none" (no path given), "absent" (os.path.exists is false),
\* "unreadable" (the path exists, reading it raises), "present".
TxtFileStates == {"none", "absent", "unreadable", "present"}

\* txt_file and os.path.exists(txt_file)
TxtExists == txt_file \in {"unreadable", "present"}

\* Lines 456 and 459: no page list, or no page with text.
PagesUnusable(data) ==
    \/ data.kind = "no_pages"
    \/ data.pages = <<>>
    \/ \A i \in 1..Len(data.pages) : data.pages[i] = ""

\* Line 466 passes one argument; extract_contract_metadata (metadata.py line
\* 17) has four required parameters, so the call raises TypeError.
MetadataCallArgs == 1

MetadataRequiredArgs == 4

\* not metadata.get(key)
Missing(md, key) == key \notin DOMAIN md \/ md[key] = ""

InitOrch ==
    /\ pc = "start"
    /\ json_data \in JsonFiles
    /\ txt_file \in TxtFileStates
    /\ txt_lines \in (IF txt_file = "present" THEN SeqsUpTo(LineVocab, MaxLines) ELSE {<<>>})
    /\ json_success = TRUE
    /\ processed_data = InitialProcessedData
    /\ structured = NothingStored
    /\ articles = <<>>
    /\ first_pages_text = ""
    /\ ner_out = <<>>
    /\ spacy_out = [ents |-> <<>>, noun_chunks |-> <<>>, sents |-> <<>>]
    /\ potential_parties = <<>>
    /\ idx = 1
    /\ seen_parties = {}
    /\ parties = <<>>
    /\ filtered_parties = <<>>
    /\ ResolverIdle

orchFrame == <<first_pages_text, ner_out, spacy_out, potential_parties, idx, seen_parties,
               parties, filtered_parties, txt_lines, articles, json_data, txt_file,
               resolverVars>>

\* Lines 451-461 and 487-489: load the JSON file and look at its pages.
LoadJson ==
    /\ pc = "start"
    /\ IF json_data.kind = "invalid" \/ PagesUnusable(json_data)
       THEN json_success' = FALSE /\ pc' = "json_tried"
       ELSE UNCHANGED json_success /\ pc' = "json_extract"
    /\ UNCHANGED <<processed_data, structured>>
    /\ UNCHANGED orchFrame

\* Lines 464-486: the first extraction call raises before anything is stored,
\* and the handler of line 484 clears json_success.
ExtractStructured ==
    /\ pc = "json_extract"
    /\ MetadataCallArgs < MetadataRequiredArgs
    /\ json_success' = FALSE
    /\ pc' = "json_tried"
    /\ UNCHANGED <<processed_data, structured>>
    /\ UNCHANGED orchFrame

\* Lines 492-513: the text fallback.  Reading an unreadable file raises, and
\* line 511 re-raises when no Article is held.
TxtFallback ==
    /\ pc = "json_tried"
    /\ ~json_success /\ TxtExists
    /\ IF txt_file = "present"
       THEN /\ processed_data' =
                   [processed_data EXCEPT
                       !.metadata = extract_contract_metadata_from_text(txt_lines),
                       !.articles = extract_articles_from_text(txt_lines),
                       !.source   = "txt"]
            /\ pc' = "fallback_done"
       ELSE /\ UNCHANGED processed_data
            /\ pc' = IF processed_data.articles = <<>> THEN "raised" ELSE "fallback_done"
    /\ UNCHANGED <<json_success, structured>>
    /\ UNCHANGED orchFrame

\* Line 492 is false: no fallback.
SkipFallback ==
    /\ pc = "json_tried"
    /\ ~(~json_success /\ TxtExists)
    /\ pc' = "fallback_done"
    /\ UNCHANGED <<json_success, processed_data, structured>>
    /\ UNCHANGED orchFrame

\* Line 516: JSON passed and the text file exists.
HybridGuard == json_success /\ TxtExists

\* Line 518: what makes the orchestrator supplement from the text file.
NeedsSupplement(data) ==
    data.articles = <<>> \/ DOMAIN data.metadata = {} \/ Missing(data.metadata, "title")

SupplementAlways(md, txt, key) == txt[key]

\* Lines 533-544: a field is taken from the text metadata only if it is missing.
Supplement(md, txt, key) == IF Missing(md, key) THEN txt[key] ELSE md[key]

SupplementedKeys == {"document_type", "effective_date", "execution_date", "title"}

\* Lines 529-544.
SupplementMetadata(md, lines) ==
    IF Missing(md, "document_type") \/ Missing(md, "effective_date") \/ Missing(md, "title")
    THEN LET txt == extract_contract_metadata_from_text(lines)
         IN  [k \in DOMAIN md \cup SupplementedKeys |->
                 IF k \in SupplementedKeys THEN Supplement(md, txt, k) ELSE md[k]]
    ELSE md

\* Lines 516-548: the hybrid step.  An unreadable text file raises at line 521
\* and the handler of line 547 leaves the result as it was.
HybridStep ==
    /\ pc = "fallback_done"
    /\ HybridGuard
    /\ IF NeedsSupplement(processed_data) /\ txt_file = "present"
       THEN processed_data' =
               [processed_data EXCEPT
                   !.articles = IF processed_data.articles = <<>>
                                THEN extract_articles_from_text(txt_lines)
                                ELSE processed_data.articles,
                   !.metadata = SupplementMetadata(processed_data.metadata, txt_lines),
                   !.source   = "hybrid"]
       ELSE UNCHANGED processed_data
    /\ pc' = "hybrid_done"
    /\ UNCHANGED <<json_success, structured>>
    /\ UNCHANGED orchFrame

\* Line 550.
Return ==
    /\ \/ pc = "fallback_done" /\ ~HybridGuard
       \/ pc = "hybrid_done"
    /\ pc' = "returned"
    /\ UNCHANGED <<json_success, processed_data, structured>>
    /\ UNCHANGED orchFrame

Next == LoadJson \/ ExtractStructured \/ TxtFallback \/ SkipFallback \/ Return

Spec == InitOrch /\ [][Next]_vars

\* What extract_contract_metadata (src/src/extract/metadata.py) can store: the
\* title and the effective date may be empty, the document type never is
\* (line 20 defaults it to "Contract").
StructuredMetadata ==
    [title : {"", "MASTER LEASE"},
     effective_date : {"", "January 5, 2024"},
     document_type : {"Contract", "Service Agreement"}]

\* Article lists that pass the validation of lines 478-483.
StructuredArticles ==
    {<<[number |-> "I", numeric_id |-> "1", title |-> "DEFINITIONS",
        content |-> "Term means the lease term."]>>}

\* The hybrid step taken by itself: process_with_fallback at line 516 after a
\* structured pass that stored its results and kept json_success.
InitHybrid ==
    /\ pc = "fallback_done"
    /\ json_data = [kind |-> "pages", pages |-> <<"ARTICLE I - DEFINITIONS">>]
    /\ txt_file \in TxtFileStates
    /\ txt_lines \in (IF txt_file = "present" THEN SeqsUpTo(LineVocab, MaxLines) ELSE {<<>>})
    /\ json_success = TRUE
    /\ structured \in [metadata : StructuredMetadata, articles : StructuredArticles]
    /\ processed_data = [metadata |-> structured.metadata, articles |-> structured.articles,
                         parties |-> <<>>, source |-> "json"]
    /\ articles = <<>>
    /\ first_pages_text = ""
    /\ ner_out = <<>>
    /\ spacy_out = [ents |-> <<>>, noun_chunks |-> <<>>, sents |-> <<>>]
    /\ potential_parties = <<>>
    /\ idx = 1
    /\ seen_parties = {}
    /\ parties = <<>>
    /\ filtered_parties = <<>>
    /\ ResolverIdle

NextHybrid == HybridStep \/ Return

SpecHybrid == InitHybrid /\ [][NextHybrid]_vars

\* process_with_fallback has returned or raised.
Terminated == pc \in {"returned", "raised"}

\* What the text-only extraction makes of the text file (lines 499 and 503).
TextMetadata == extract_contract_metadata_from_text(txt_lines)

TextArticles == extract_articles_from_text(txt_lines)

ProducedByText ==
    processed_data.metadata = TextMetadata /\ processed_data.articles = TextArticles

\* C2: when the structured source fails validation, a text file that exists
\* makes the returned result the one of the text-only extraction, and without
\* a text file the call raises instead of returning a result.
C2_FallbackOrRaise ==
    (Terminated /\ ~json_success) =>
        IF TxtExists
        THEN pc = "returned" => (processed_data.source = "txt" /\ ProducedByText)
        ELSE pc = "raised"

\* The text fallback fails: reading raises, or no Article comes out of it.
FallbackFails ==
    txt_file = "unreadable" \/ (txt_file = "present" /\ TextArticles = <<>>)

\* C3: when the structured source fails validation and the text fallback
\* fails too (it raises, or yields no Article), process_with_fallback raises
\* and returns no result.
C3_BothFailRaises ==
    (Terminated /\ ~json_success /\ FallbackFails) => pc = "raised"

\* The result holds something the structured pass did not store.
Supplemented ==
    /\ json_success
    /\ \/ processed_data.articles # structured.articles
       \/ \E k \in DOMAIN processed_data.metadata :
              k \notin DOMAIN structured.metadata
              \/ processed_data.metadata[k] # structured.metadata[k]

\* C4: in every returned result the provenance tag names what produced the
\* data: "json" only for the data of a structured extraction that passed,
\* "txt" only for the data of the text-only extraction, and "hybrid" exactly
\* when structured data was supplemented from the text file.
C4_ProvenanceNamesProducer ==
    pc = "returned" =>
        /\ processed_data.source = "json" =>
              /\ json_success
              /\ processed_data.metadata = structured.metadata
              /\ processed_data.articles = structured.articles
        /\ processed_data.source = "txt" => ProducedByText
        /\ processed_data.source = "hybrid" <=> Supplemented

\* Line 459: the JSON file has pages, none of them with text.
EmptyPageText ==
    /\ json_data.kind = "pages"
    /\ json_data.pages # <<>>
    /\ \A i \in 1..Len(json_data.pages) : json_data.pages[i] = ""

\* A readable text file that is not empty.
NonEmptyTextFile == txt_file = "present" /\ JoinLines(txt_lines) # ""

ResolvedKeys == {"title", "effective_date", "document_type"}

\* C7: the hybrid step keeps every field the structured pass had resolved: a
\* non-empty Article list and each non-empty title, effective_date and
\* document_type are after the step what they were before it.
C7_ResolvedFieldsKept ==
    pc \in {"hybrid_done", "returned"} =>
        /\ structured.articles # <<>> => processed_data.articles = structured.articles
        /\ \A k \in ResolvedKeys :
              ~Missing(structured.metadata, k) =>
                  processed_data.metadata[k] = structured.metadata[k]

\* The step supplemented a missing title while the text file offered another
\* effective date and another document type than the resolved ones.
C7_Witness ==
    /\ pc = "hybrid_done"
    /\ processed_data.source = "hybrid"
    /\ Missing(structured.metadata, "title")
    /\ ~Missing(structured.metadata, "effective_date")
    /\ TextMetadata.effective_date \notin {"", structured.metadata.effective_date}
    /\ TextMetadata.document_type # structured.metadata.document_type

\* ---------------------------------------------------------------------------
\* The order of the Article list.
\* ---------------------------------------------------------------------------

\* Documents whose headers carry different numbers, out of order.
OrderVocab ==
    {"ARTICLE 2 - TERM.", "ARTICLE 1 - SCOPE.", "ARTICLE 10 - NOTICES.", "ARTICLE IIII - FEES."}

InitOrder ==
    /\ pc = "seg_input"
    /\ txt_lines \in SeqsUpTo(OrderVocab, MaxLines)
    /\ ner_out \in EntityAnswers(txt_lines)
    /\ spacy_out \in [ents : {<<>>}, noun_chunks : {<<>>}, sents : SentenceAnswers(txt_lines)]
    /\ first_pages_text = ""
    /\ potential_parties = <<>>
    /\ idx = 1
    /\ seen_parties = {}
    /\ parties = <<>>
    /\ filtered_parties = <<>>
    /\ articles = <<>>
    /\ OrchestratorIdle

SpecOrder == InitOrder /\ [][NextSeg]_vars

\* The Articles in the order the Segmenter found them, before any sort by
\* numeric_id: txt_parser.py line 43 (by position), articles.py (src/src) lines
\* 42-121, articles.py (src/extract) lines 44-77.
DiscoveredArticles ==
    CASE pc = "seg_text_returned" -> ToArticles(ArticleMatches(txt_lines))
      [] pc = "seg_legacy_returned" ->
            FirstNonEmpty(FirstNonEmpty(ToArticles(AllPatternMatches(txt_lines, FALSE)),
                                        CapsSentences(<<>>, spacy_out.sents)),
                          DefaultArticle)
      [] OTHER -> FirstNonEmpty(FromStructureEntities(ner_out),
                                FromSentences(<<>>, spacy_out.sents))

HeadersOf(as) == [i \in 1..Len(as) |-> HeaderArticle(as[i])]

AllIntegerIds(as) == \A i \in 1..Len(as) : IsInt(as[i].numeric_id)

\* Ascending by int(numeric_id), equal ids in the order of `discovered`.
IsStableIdOrder(result, discovered) ==
    /\ \A i \in 1..(Len(result) - 1) :
          ToInt(result[i].numeric_id) <= ToInt(result[i + 1].numeric_id)
    /\ \A n \in {ToInt(discovered[i].numeric_id) : i \in 1..Len(discovered)} :
          SelectSeq(result, LAMBDA a : ToInt(a.numeric_id) = n)
              = SelectSeq(discovered, LAMBDA a : ToInt(a.numeric_id) = n)

ClaimedOrder(result, discovered) ==
    IF AllIntegerIds(discovered)
    THEN Len(result) = Len(discovered) /\ IsStableIdOrder(result, discovered)
    ELSE result = discovered

\* C11: the Article list a Segmenter returns is in ascending integer order of
\* numeric_id, equal ids in discovery order, when every numeric_id is an
\* integer, and in discovery order otherwise.
C11_ArticlesInIdOrder ==
    pc \in {"seg_text_returned", "seg_structured_returned", "seg_legacy_returned"}
        => ClaimedOrder(HeadersOf(articles), DiscoveredArticles)

\* ---------------------------------------------------------------------------
\* The effective date of the Metadata Resolver: extract_contract_metadata of
\* src/src/extract/metadata.py, lines 26-29 and 61-138.
\* ---------------------------------------------------------------------------

\* The string `word` stands at index i of s (case-sensitive).
LiteralAt(s, i, word) ==
    i >= 1 /\ i + Len(word) - 1 <= Len(s) /\ SubSeq(s, i, i + Len(word) - 1) = word

\* End (exclusive) of  \s+\d{1,2},\s*\d{4}  tried at index p of s; 0 if it does
\* not match there.
DayYearEnd(s, p) ==
    LET s1 == RunEnd(s, p, Whitespace)
        d1 == RunEnd(s, s1, Digits)
        g1 == RunEnd(s, d1 + 1, Whitespace)
    IN  IF /\ s1 > p
           /\ d1 - s1 \in {1, 2}
           /\ LiteralAt(s, d1, ",")
           /\ RunEnd(s, g1, Digits) - g1 >= 4
        THEN g1 + 4 ELSE 0

UpperLetters ==
    {"A","B","C","D","E","F","G","H","I","J","K","L","M","N","O","P","Q","R","S",
     "T","U","V","W","X","Y","Z"}

LowerLetters == Letters \ UpperLetters

\* Index where  Effective\s+Date:\s*  ends when tried at index `at`; 0 if it
\* does not match there.
EffectiveDateLiteralEnd(s, at) ==
    IF LiteralAt(s, at, "Effective")
       /\ RunEnd(s, at + 9, Whitespace) > at + 9
       /\ LiteralAt(s, RunEnd(s, at + 9, Whitespace), "Date:")
    THEN RunEnd(s, RunEnd(s, at + 9, Whitespace) + 5, Whitespace)
    ELSE 0

\* s[from .. end - 1] when the letters from `from` to `word` are followed by a
\* day and a year, else "".
MonthDayYear(s, from, word) ==
    IF from >= 1 /\ word > from THEN GroupText(s, from, DayYearEnd(s, word)) ELSE ""

\* Group 1 of  Effective\s+Date:\s*([A-Za-z]+\s+\d{1,2},\s*\d{4})  tried at
\* index `at` ("" if it does not match there).
DirectDateAt(s, at) ==
    MonthDayYear(s, EffectiveDateLiteralEnd(s, at),
                 RunEnd(s, EffectiveDateLiteralEnd(s, at), Letters))

\* Line 27-29: re.search of the literal pattern, group 1 stripped.
DirectDate(s) ==
    IF \E at \in 1..Len(s) : DirectDateAt(s, at) # ""
    THEN Strip(DirectDateAt(s, Least({at \in 1..Len(s) : DirectDateAt(s, at) # ""})))
    ELSE ""

\* Group 1 of  ([A-Z][a-z]+\s+\d{1,2},\s*\d{4})  tried at index `at`.
GenericDateAt(s, at) ==
    IF at <= Len(s) /\ CharAt(s, at) \in UpperLetters
       /\ RunEnd(s, at + 1, LowerLetters) > at + 1
    THEN MonthDayYear(s, at, RunEnd(s, at + 1, LowerLetters))
    ELSE ""

\* Lines 131-133: re.search of the generic pattern.
GenericDate(s) ==
    IF \E at \in 1..Len(s) : GenericDateAt(s, at) # ""
    THEN GenericDateAt(s, Least({at \in 1..Len(s) : GenericDateAt(s, at) # ""}))
    ELSE ""

\* Line 105: re.sub(r'[.:,;]', ' ', text.lower())
RECURSIVE NormalizedText(_)
NormalizedText(s) ==
    IF s = "" THEN ""
    ELSE (IF CharAt(s, 1) \in {".", ":", ",", ";"} THEN " " ELSE LowerChar(CharAt(s, 1)))
         \o NormalizedText(SubSeq(s, 2, Len(s)))

DATE_CONTEXTS ==
    <<"effective date", "dated as of", "agreement date", "executed on", "entered into on">>

\* Lines 113-119: the date lies after the context, less than 100 characters on.
NearContext(norm, cpos, date) ==
    Find(norm, Lower(date)) > cpos /\ Find(norm, Lower(date)) - cpos < 100

\* Lines 110-123: the first of the dates at the least distance after the
\* context at cpos ("" when there is none).
ClosestDate(norm, cpos, dates) ==
    IF \E i \in 1..Len(dates) : NearContext(norm, cpos, dates[i])
    THEN dates[CHOOSE i \in 1..Len(dates) :
                  /\ NearContext(norm, cpos, dates[i])
                  /\ \A j \in 1..Len(dates) :
                        NearContext(norm, cpos, dates[j]) =>
                            \/ Find(norm, Lower(dates[j])) > Find(norm, Lower(dates[i]))
                            \/ (Find(norm, Lower(dates[j])) = Find(norm, Lower(dates[i]))
                                /\ i <= j)]
    ELSE ""

\* Lines 107-127 for one context phrase.
ContextDate(norm, context, dates) ==
    IF Find(norm, context) >= 0 THEN ClosestDate(norm, Find(norm, context), dates) ELSE ""

\* Lines 103-127: the date of the first context phrase that has one.
RECURSIVE ProximityFrom(_, _, _)
ProximityFrom(norm, contexts, dates) ==
    IF contexts = <<>> THEN ""
    ELSE IF ContextDate(norm, Head(contexts), dates) # ""
         THEN ContextDate(norm, Head(contexts), dates)
         ELSE ProximityFrom(norm, Tail(contexts), dates)

ProximityDate(text, dates) == ProximityFrom(NormalizedText(text), DATE_CONTEXTS, dates)

\* Lines 92-100: the DATE entities, then the matches of DATE_PATTERNS that are
\* not among them yet.
RECURSIVE ExtendDates(_, _)
ExtendDates(dates, matches) ==
    IF matches = <<>> THEN dates
    ELSE ExtendDates(IF \E i \in 1..Len(dates) : dates[i] = Head(matches)
                     THEN dates ELSE Append(dates, Head(matches)),
                     Tail(matches))

\* Line 67.
EmptyEntities ==
    [DATE |-> <<>>, ORG |-> <<>>, PERSON |-> <<>>, MONEY |-> <<>>, TIME |-> <<>>, LOC |-> <<>>]

IsPrefix(a, b) == Len(a) <= Len(b) /\ SubSeq(b, 1, Len(a)) = a

\* Lines 79-81: the word is a fragment of one of the last three dates.
IsDateFragment(dates, word) ==
    \E i \in 1..Len(dates) :
        i > Len(dates) - 3 /\ (IsPrefix(word, dates[i]) \/ IsPrefix(dates[i], word))

\* Lines 74-84 for one entity of the service's answer.
AddEntity(ents, type, word) ==
    IF type \in DOMAIN ents /\ Len(word) > 1
       /\ ~(type = "DATE" /\ IsDateFragment(ents.DATE, word))
    THEN [ents EXCEPT ![type] = Append(@, word)]
    ELSE ents

RECURSIVE GroupEntities(_, _)
GroupEntities(ents, results) ==
    IF results = <<>> THEN ents
    ELSE GroupEntities(AddEntity(ents, Head(results).entity_group, Strip(Head(results).word)),
                       Tail(results))

\* Line 20 (the keys the cascades write; "parties" is left to the Party
\* Resolver's model).
DefaultMetadata == [title |-> "", effective_date |-> "", document_type |-> "Contract"]

MaxDateLines == 2

MaxDates == 1

DateVocab ==
    {"Effective Date: April 29, 2025", "dated as of 1 May 2024",
     "Signed on March 3, 2022", "effective date 2 June 2023"}

\* The DATE entities the annotation service may report.
DateWords == {"1 May 2024", "2 June 2023", "March 3"}

\* What DATE_PATTERNS may match: the list is imported from contract_constants
\* and is not part of these sources, so any of the dates of the page may be
\* among its matches.
PatternDateAnswers(text) ==
    {ds \in {<<>>, <<"2 June 2023">>, <<"1 May 2024", "2 June 2023">>} :
        \A i \in 1..Len(ds) : Contains(text, ds[i])}

InitDate ==
    /\ pc = "date_start"
    /\ first_pages_text \in {JoinLines(ls) : ls \in SeqsUpTo(DateVocab, MaxDateLines)}
    /\ ner_out \in SeqsUpTo([entity_group : {"DATE"}, word : DateWords], MaxDates)
    /\ date_matches \in PatternDateAnswers(first_pages_text)
    /\ doc_classification = <<>>
    /\ last_pages_text = ""
    /\ metadata = DefaultMetadata
    /\ entities = EmptyEntities
    /\ steps = <<>>
    /\ OutputIdle
    /\ spacy_out = [ents |-> <<>>, noun_chunks |-> <<>>, sents |-> <<>>]
    /\ potential_parties = <<>>
    /\ idx = 1
    /\ seen_parties = {}
    /\ parties = <<>>
    /\ filtered_parties = <<>>
    /\ txt_lines = <<>>
    /\ articles = <<>>
    /\ json_data = [kind |-> "invalid", pages |-> <<>>]
    /\ txt_file = "none"
    /\ json_success = FALSE
    /\ processed_data = InitialProcessedData
    /\ structured = NothingStored

dateFrame == <<first_pages_text, ner_out, spacy_out, potential_parties, idx, seen_parties,
               parties, filtered_parties, txtVars, date_matches, doc_classification,
               last_pages_text, outputVars>>

SetDate(md, date) == IF date # "" THEN [md EXCEPT !.effective_date = date] ELSE md

\* Lines 27-29: the literal "Effective Date: <date>".
DirectPattern ==
    /\ pc = "date_start"
    /\ metadata' = SetDate(metadata, DirectDate(first_pages_text))
    /\ steps' = Append(steps, "direct")
    /\ pc' = "date_ner"
    /\ UNCHANGED <<entities, dateFrame>>

\* Lines 61-84: the entities of the page (one chunk; none for an empty page).
NerPass ==
    /\ pc = "date_ner"
    /\ entities' = IF first_pages_text = "" THEN EmptyEntities
                   ELSE GroupEntities(EmptyEntities, ner_out)
    /\ pc' = "date_cascade"
    /\ UNCHANGED <<metadata, steps, dateFrame>>

\* Line 87: the other strategies run only while no date is set.
CascadeAlways(md) == TRUE

CascadeNeeded(md) == md.effective_date = ""

SkipDateCascade ==
    /\ pc = "date_cascade"
    /\ ~CascadeNeeded(metadata)
    /\ pc' = "date_done"
    /\ UNCHANGED <<metadata, entities, steps, dateFrame>>

\* Lines 88-127: the date nearest after a context phrase.
Proximity ==
    /\ pc = "date_cascade"
    /\ CascadeNeeded(metadata)
    /\ metadata' = SetDate(metadata,
                       ProximityDate(first_pages_text, ExtendDates(entities.DATE, date_matches)))
    /\ steps' = Append(steps, "proximity")
    /\ pc' = IF ProximityDate(first_pages_text, ExtendDates(entities.DATE, date_matches)) # ""
             THEN "date_done" ELSE "date_generic"
    /\ UNCHANGED <<entities, dateFrame>>

\* Lines 130-134: the generic "Month DD, YYYY".
Generic ==
    /\ pc = "date_generic"
    /\ metadata' = SetDate(metadata, GenericDate(first_pages_text))
    /\ steps' = Append(steps, "generic")
    /\ pc' = IF GenericDate(first_pages_text) # "" THEN "date_done" ELSE "date_annotation"
    /\ UNCHANGED <<entities, dateFrame>>

\* Lines 135-137: the first DATE entity.
FirstAnnotationDate ==
    /\ pc = "date_annotation"
    /\ metadata' = SetDate(metadata, IF entities.DATE # <<>> THEN entities.DATE[1] ELSE "")
    /\ steps' = Append(steps, "annotation")
    /\ pc' = "date_done"
    /\ UNCHANGED <<entities, dateFrame>>

NextDate ==
    DirectPattern \/ NerPass \/ SkipDateCascade \/ Proximity \/ Generic \/ FirstAnnotationDate

SpecDate == InitDate /\ [][NextDate]_vars

DateStrategies == <<"direct", "proximity", "generic", "annotation">>

\* What each strategy yields on the page by itself ("" when it fails), in the
\* order (a), (b), (c), (d).
StrategyDates ==
    <<DirectDate(first_pages_text),
      ProximityDate(first_pages_text, ExtendDates(entities.DATE, date_matches)),
      GenericDate(first_pages_text),
      IF entities.DATE # <<>> THEN entities.DATE[1] ELSE "">>

\* The first entry of ds that is not "", and how many entries were looked at.
FirstSuccess(ds) ==
    IF \E i \in 1..Len(ds) : ds[i] # ""
    THEN Least({i \in 1..Len(ds) : ds[i] # ""})
    ELSE Len(ds)

\* C12: the strategies run in the order direct, proximity, generic, first
\* annotation date; the date of the first one that succeeds is the final
\* effective_date, and no later strategy has run.
C12_FirstStrategyWins ==
    pc = "date_done" =>
        /\ steps = SubSeq(DateStrategies, 1, FirstSuccess(StrategyDates))
        /\ metadata.effective_date = StrategyDates[FirstSuccess(StrategyDates)]

\* The literal pattern set the date although the proximity strategy would have
\* found another one.
C12_Witness ==
    /\ pc = "date_done"
    /\ steps = <<"direct">>
    /\ metadata.effective_date = "April 29, 2025"
    /\ StrategyDates[2] \notin {"", "April 29, 2025"}

\* ---------------------------------------------------------------------------
\* The document type: extract_contract_metadata of src/src/extract/metadata.py
\* (lines 31-59) and of the earlier src/extract/metadata.py (lines 59-69 and
\* 203-216).  A classifier score is held in hundredths.
\* ---------------------------------------------------------------------------

ConfidenceThreshold == 70

\* metadata.py (src/src) lines 47-56: label_mapping.get(label, label)
LabelMapping(label) ==
    CASE label = "LABEL_0" -> "Contract Agreement"
      [] label = "LABEL_1" -> "License Agreement"
      [] label = "LABEL_2" -> "Service Agreement"
      [] label = "LABEL_3" -> "Employment Agreement"
      [] label = "LABEL_4" -> "Non-Disclosure Agreement"
      [] label = "LABEL_5" -> "Sales Agreement"
      [] label = "LABEL_6" -> "Lease Agreement"
      [] label = "LABEL_7" -> "Financial Agreement"
      [] OTHER -> label

DOC_TYPES ==
    <<[type |-> "Non-Disclosure Agreement",
       keywords |-> <<"confidential", "disclose", "NDA", "non-disclosure">>],
      [type |-> "Employment Contract",
       keywords |-> <<"employ", "salary", "position", "hire", "job", "work">>],
      [type |-> "Lease Agreement",
       keywords |-> <<"lease", "rent", "landlord", "tenant", "property">>],
      [type |-> "License Agreement",
       keywords |-> <<"license", "royalty", "intellectual property", "patent">>],
      [type |-> "Services Agreement", keywords |-> <<"service", "perform", "deliverable">>],
      [type |-> "Purchase Agreement", keywords |-> <<"purchase", "buy", "acquire", "sale">>],
      [type |-> "Merger Agreement",
       keywords |-> <<"merger", "acquire", "acquisition", "combine">>]>>

\* str.count: the occurrences of sub in s from index i on, not overlapping.
RECURSIVE CountFrom(_, _, _)
CountFrom(s, sub, i) ==
    IF i + Len(sub) - 1 > Len(s) THEN 0
    ELSE IF SubSeq(s, i, i + Len(sub) - 1) = sub THEN 1 + CountFrom(s, sub, i + Len(sub))
    ELSE CountFrom(s, sub, i + 1)

\* metadata.py (src/extract) line 210: the hits of the keywords of one type.
RECURSIVE KeywordScore(_, _)
KeywordScore(lowered, keywords) ==
    IF keywords = <<>> THEN 0
    ELSE CountFrom(lowered, Lower(Head(keywords)), 1) + KeywordScore(lowered, Tail(keywords))

\* Lines 213-216: max(type_scores.items(), key=score), the first of the best.
BestType(scores) ==
    CHOOSE i \in 1..Len(scores) :
        /\ \A j \in 1..Len(scores) : scores[j] <= scores[i]
        /\ \A j \in 1..(i - 1) : scores[j] < scores[i]

TypeScores(lowered) == [i \in 1..Len(DOC_TYPES) |-> KeywordScore(lowered, DOC_TYPES[i].keywords)]

KeywordTypeOf(scores, default) ==
    IF scores[BestType(scores)] > 0 THEN DOC_TYPES[BestType(scores)].type ELSE default

\* metadata.py (src/extract) lines 203-216.
KeywordType(text, default) == KeywordTypeOf(TypeScores(Lower(text)), default)

\* metadata.py (src/src) lines 37-58: the label of a confident classification,
\* else the default of line 20.
document_type(classification) ==
    IF classification # <<>>
       /\ classification[1].score > ConfidenceThreshold
       /\ classification[1].label # ""
    THEN LabelMapping(classification[1].label)
    ELSE "Contract"

\* metadata.py (src/extract) lines 59-69: any label the classifier gives for
\* the first chunk (text_chunks[0] raises on an empty page, which line 68
\* catches), and lines 203-216 while the type is still "Contract".
LegacyClassified(classification, text) ==
    IF text # "" /\ classification # <<>> /\ classification[1].label # ""
    THEN classification[1].label
    ELSE "Contract"

KeywordTypeIfDefault(type, text) == IF type = "Contract" THEN KeywordType(text, type) ELSE type

legacy_document_type(classification, text) ==
    KeywordTypeIfDefault(LegacyClassified(classification, text), text)

TypeVocab ==
    {"", "The Tenant shall pay rent.", "license and lease", "SERVICE AGREEMENT",
     "This Agreement is made by the parties."}

ClassifierAnswers ==
    {<<>>} \cup {<<c>> : c \in [label : {"LABEL_6", "Amendment", ""}, score : {50, 70, 71, 95}]}

InitType ==
    /\ pc = "type_start"
    /\ first_pages_text \in TypeVocab
    /\ doc_classification \in ClassifierAnswers
    /\ last_pages_text = ""
    /\ metadata = DefaultMetadata
    /\ entities = EmptyEntities
    /\ date_matches = <<>>
    /\ steps = <<>>
    /\ OutputIdle
    /\ ner_out = <<>>
    /\ spacy_out = [ents |-> <<>>, noun_chunks |-> <<>>, sents |-> <<>>]
    /\ potential_parties = <<>>
    /\ idx = 1
    /\ seen_parties = {}
    /\ parties = <<>>
    /\ filtered_parties = <<>>
    /\ txt_lines = <<>>
    /\ articles = <<>>
    /\ json_data = [kind |-> "invalid", pages |-> <<>>]
    /\ txt_file = "none"
    /\ json_success = FALSE
    /\ processed_data = InitialProcessedData
    /\ structured = NothingStored

typeFrame == <<first_pages_text, ner_out, spacy_out, potential_parties, idx, seen_parties,
               parties, filtered_parties, txtVars, entities, date_matches,
               doc_classification, last_pages_text, steps, outputVars>>

\* extract_contract_metadata of src/src/extract
ResolveType ==
    /\ pc = "type_start"
    /\ metadata' = [metadata EXCEPT !.document_type = document_type(doc_classification)]
    /\ pc' = "type_resolved"
    /\ UNCHANGED typeFrame

\* extract_contract_metadata of src/extract
ResolveTypeLegacy ==
    /\ pc = "type_start"
    /\ metadata' = [metadata EXCEPT
                       !.document_type = legacy_document_type(doc_classification,
                                                              first_pages_text)]
    /\ pc' = "type_resolved_legacy"
    /\ UNCHANGED typeFrame

NextType == ResolveType \/ ResolveTypeLegacy

SpecType == InitType /\ [][NextType]_vars

\* The cascade as claimed.
ClaimedDocumentType(classification, text) ==
    IF classification # <<>> /\ classification[1].label # ""
       /\ classification[1].score > ConfidenceThreshold
    THEN LabelMapping(classification[1].label)
    ELSE KeywordType(text, "Contract")

\* C13: document_type is the mapped label of a classification whose confidence
\* is above 0.7, and otherwise the DOC_TYPES entry with the most keyword hits
\* on the first page (the earliest on a tie), "Contract" when there is no hit.
C13_DocumentTypeCascade ==
    pc \in {"type_resolved", "type_resolved_legacy"} =>
        metadata.document_type = ClaimedDocumentType(doc_classification, first_pages_text)

\* ---------------------------------------------------------------------------
\* The title of a plain-text document: extract_contract_metadata_from_text.
\* ---------------------------------------------------------------------------

TitleVocab ==
    {"", "SERVICE AGREEMENT", "LEASE CONTRACT", "Master Agreement", "GENERAL TERMS",
     "the contract applies.", "Simple text."}

InitTitle ==
    /\ pc = "title_start"
    /\ txt_lines \in SeqsUpTo(TitleVocab, MaxLines)
    /\ first_pages_text = ""
    /\ ner_out = <<>>
    /\ spacy_out = [ents |-> <<>>, noun_chunks |-> <<>>, sents |-> <<>>]
    /\ potential_parties = <<>>
    /\ idx = 1
    /\ seen_parties = {}
    /\ parties = <<>>
    /\ filtered_parties = <<>>
    /\ articles = <<>>
    /\ OrchestratorIdle

\* extract_contract_metadata_from_text(text)
ExtractMetadataFromText ==
    /\ pc = "title_start"
    /\ metadata' = extract_contract_metadata_from_text(txt_lines)
    /\ pc' = "title_done"
    /\ UNCHANGED <<first_pages_text, ner_out, spacy_out, potential_parties, idx, seen_parties,
                   parties, filtered_parties, txtVars, entities, date_matches,
                   doc_classification, last_pages_text, steps, outputVars>>

NextTitle == ExtractMetadataFromText

SpecTitle == InitTitle /\ [][NextTitle]_vars

\* The title is a candidate of the highest score, and the first such one in
\* the order the candidates were collected.
IsFirstBest(title, pots) ==
    \E i \in 1..Len(pots) :
        /\ title = pots[i][1]
        /\ \A j \in 1..Len(pots) : pots[j][2] <= pots[i][2]
        /\ \A j \in 1..(i - 1) : pots[j][2] < pots[i][2]

\* An all-caps line of 2 to 15 words with AGREEMENT or CONTRACT.
IsStrongTitle(line) ==
    /\ IsUpperStr(line)
    /\ WordCount(line) >= 2 /\ WordCount(line) <= 15
    /\ ContainsAny(line, {"AGREEMENT", "CONTRACT"})

StrongFirstLineWins(title, nel) == (nel # <<>> /\ IsStrongTitle(nel[1])) => title = nel[1]

BestCandidateWins(title, pots) == pots # <<>> => IsFirstBest(title, pots)

NoClearTitle(nel) ==
    \A i \in 1..Len(nel) :
        /\ ~IsUpperStr(nel[i])
        /\ ~Contains(Lower(nel[i]), "agreement")
        /\ ~Contains(Lower(nel[i]), "license")

FirstLineIsTitle(title, nel) == (nel # <<>> /\ NoClearTitle(nel)) => title = nel[1]

\* C15: for a text without clear title (no all-caps line, no line with
\* "agreement" or "license") the title is the first non-empty line, also when
\* a later line contains "contract" in lower case.
C15_FirstLineFallback ==
    pc = "title_done" => FirstLineIsTitle(metadata.title, NonEmptyLines(txt_lines))

\* ---------------------------------------------------------------------------
\* The signatories of the parties: extract_parties of
\* src/src/extract/parties.py, lines 159-241, and SIGNATURE_PATTERNS.
\* ---------------------------------------------------------------------------

\* [A-Za-z0-9\s,\.&]
SigCompanyChars == Letters \cup Digits \cup Whitespace \cup {",", ".", "&"}

\* [A-Za-z\s\.-]
SigNameChars == Letters \cup Whitespace \cup {".", "-"}

\* [_\s-]
SigFillChars == Whitespace \cup {"_", "-"}

\* Start of the longest run of characters of cls that ends right before i.
RECURSIVE RunBegin(_, _, _)
RunBegin(s, i, cls) ==
    IF i > 1 /\ CharAt(s, i - 1) \in cls THEN RunBegin(s, i - 1, cls) ELSE i

\* One of the words stands at index i (in any case): its length, else 0.
KeywordLen(s, i, words) ==
    IF i >= 1 /\ \E n \in 1..Len(words) : WordAt(s, i, words[n])
    THEN Len(words[CHOOSE n \in 1..Len(words) :
                       /\ WordAt(s, i, words[n])
                       /\ \A m \in 1..(n - 1) : ~WordAt(s, i, words[m])])
    ELSE 0

Greatest(S) == CHOOSE a \in S : \A b \in S : b <= a

\* Index of the last "\n" of the whitespace that ends right before x, not
\* before lo (0: there is none).
LastNewline(s, lo, x) ==
    IF \E j \in lo..(x - 1) : CharAt(s, j) = "\n" /\ RunEnd(s, j, Whitespace) >= x
    THEN Greatest({j \in lo..(x - 1) : CharAt(s, j) = "\n" /\ RunEnd(s, j, Whitespace) >= x})
    ELSE 0

NoSignature == [company |-> "", name |-> "", title |-> "", end |-> 0]

\* \s*([A-Za-z\s\.-]+) after "Title:": the run of name characters from k3.
SigTitle(s, company, name, k3) ==
    IF name # "#" /\ RunEnd(s, k3, SigNameChars) > k3
    THEN [company |-> Strip(company), name |-> Strip(name),
          title |-> Strip(SubSeq(s, k3, RunEnd(s, k3, SigNameChars) - 1)),
          end |-> RunEnd(s, k3, SigNameChars)]
    ELSE NoSignature

\* Pattern 1,  \s*([A-Za-z\s\.-]+)\s*(?:Title|Position): , from k2: the run of
\* name characters from k2 ends at the colon of the keyword at t.
InlineName(s, k2, t) ==
    IF t > k2 /\ KeywordLen(s, t, <<"Title:", "Position:">>) > 0
    THEN SubSeq(s, k2, t - 1) ELSE "#"

InlineTitleAt(s, k2, r2) ==
    IF KeywordLen(s, r2 - 5, <<"Title:">>) > 0 THEN r2 - 5 ELSE r2 - 8

SigAfterCompany1(s, company, k2) ==
    SigTitle(s, company,
             InlineName(s, k2, InlineTitleAt(s, k2, RunEnd(s, k2, SigNameChars))),
             RunEnd(s, k2, SigNameChars) + 1)

\* Pattern 1,  \s*([A-Za-z0-9\s,\.&]+)\s*[_\s-]*\s*(?:Name|Signature): , from
\* k: the ends of the company group after which only fill characters stand
\* before the keyword.
CompanyEnds(s, k) ==
    {e \in (k + 1)..RunEnd(s, k, SigCompanyChars) :
        KeywordLen(s, RunEnd(s, e, SigFillChars), <<"Name:", "Signature:">>) > 0}

SigFromCompanyEnd(s, k, e) ==
    SigAfterCompany1(s, SubSeq(s, k, e - 1),
        RunEnd(s, e, SigFillChars)
            + KeywordLen(s, RunEnd(s, e, SigFillChars), <<"Name:", "Signature:">>))

\* Pattern 1 tried at index `at`.
Signature1At(s, at) ==
    IF KeywordLen(s, at, <<"For:", "By:">>) > 0
       /\ CompanyEnds(s, at + KeywordLen(s, at, <<"For:", "By:">>)) # {}
    THEN SigFromCompanyEnd(s, at + KeywordLen(s, at, <<"For:", "By:">>),
             Greatest(CompanyEnds(s, at + KeywordLen(s, at, <<"For:", "By:">>))))
    ELSE NoSignature

\* Pattern 2,  \s*([A-Za-z\s\.-]+)\s*\n\s*Title: , from k2, the keyword at t.
BlockName(s, k2, t) ==
    IF t > k2 /\ KeywordLen(s, t, <<"Title:">>) > 0 /\ LastNewline(s, k2 + 1, t) > 0
    THEN SubSeq(s, k2, LastNewline(s, k2 + 1, t) - 1) ELSE "#"

SigAfterName2(s, company, k2) ==
    SigTitle(s, company, BlockName(s, k2, RunEnd(s, k2, SigNameChars) - 5),
             RunEnd(s, k2, SigNameChars) + 1)

\* Pattern 2,  By:\s*[_\s-]*\s*\n\s*Name: , "By:" at b, "Name:" at f.
SigAfterBy2(s, company, b, f) ==
    IF KeywordLen(s, f, <<"Name:">>) > 0 /\ LastNewline(s, b + 3, f) > 0
    THEN SigAfterName2(s, company, f + 5)
    ELSE NoSignature

\* Pattern 2 for the "By:" at index b, the search being at index pos: the
\* company group starts with the run of company characters before "By:".
Signature2From(s, b, p) ==
    IF LastNewline(s, p + 1, b) > 0
    THEN SigAfterBy2(s, SubSeq(s, p, LastNewline(s, p + 1, b) - 1), b,
                     RunEnd(s, b + 3, SigFillChars))
    ELSE NoSignature

Later(a, b) == IF a > b THEN a ELSE b

Signature2At(s, b, pos) ==
    IF b > pos /\ KeywordLen(s, b, <<"By:">>) > 0
    THEN Signature2From(s, b, Later(pos, RunBegin(s, b, SigCompanyChars)))
    ELSE NoSignature

SignatureAt(s, at, pos, second) ==
    IF second THEN Signature2At(s, at, pos) ELSE Signature1At(s, at)

\* re.finditer(SIGNATURE_PATTERNS[n], text, re.IGNORECASE | re.MULTILINE) from
\* index pos on: the matches, from left to right, not overlapping.
RECURSIVE SignatureMatches(_, _, _)
SignatureMatches(s, pos, second) ==
    IF \E at \in pos..Len(s) : SignatureAt(s, at, pos, second).end > 0
    THEN <<SignatureAt(s, Least({at \in pos..Len(s) : SignatureAt(s, at, pos, second).end > 0}),
                       pos, second)>>
         \o SignatureMatches(s,
                SignatureAt(s, Least({at \in pos..Len(s) :
                                         SignatureAt(s, at, pos, second).end > 0}),
                            pos, second).end,
                second)
    ELSE <<>>

\* Lines 190-196: the matches of the two patterns, pattern after pattern.
AllSignatureMatches(text) ==
    SignatureMatches(text, 1, FALSE) \o SignatureMatches(text, 1, TRUE)

\* Line 201: the company of a signature block names the party.
NamesParty(company, party) == Contains(party.name, company) \/ Contains(company, party.name)

AppendSignatory(ps, i, signatory) ==
    [ps EXCEPT ![i].signatories = Append(@, signatory)]

\* Lines 199-203: the signatory of one match goes to the first party its
\* company names.
AttachSignatory(ps, m) ==
    IF \E i \in 1..Len(ps) : NamesParty(m.company, ps[i])
    THEN AppendSignatory(ps, Least({i \in 1..Len(ps) : NamesParty(m.company, ps[i])}),
                         [name |-> m.name, title |-> m.title])
    ELSE ps

\* Lines 189-203: all matches, in order.
RECURSIVE AttachAll(_, _)
AttachAll(ps, ms) ==
    IF ms = <<>> THEN ps ELSE AttachAll(AttachSignatory(ps, Head(ms)), Tail(ms))

Distance(a, b) == IF a >= b THEN a - b ELSE b - a

OfLabel(ents, label) == SelectSeq(ents, LAMBDA e : e.label = label)

\* Lines 213-221: index of the first of the organizations nearest to the
\* person (0: there is no organization).
ClosestOrg(person, orgs) ==
    IF orgs = <<>> THEN 0
    ELSE CHOOSE i \in 1..Len(orgs) :
            /\ \A j \in 1..Len(orgs) :
                  Distance(person.start, orgs[i].start) <= Distance(person.start, orgs[j].start)
            /\ \A j \in 1..(i - 1) :
                  Distance(person.start, orgs[j].start) > Distance(person.start, orgs[i].start)

\* Lines 225-230: the person becomes a signatory of every party the
\* organization names, unless the party has that signatory already.
AddNearby(ps, org, signatory) ==
    [i \in 1..Len(ps) |->
        IF NamesParty(org.text, ps[i]) /\ ~InList(signatory, ps[i].signatories)
        THEN [ps[i] EXCEPT !.signatories = Append(@, signatory)]
        ELSE ps[i]]

\* Lines 213-230 for one person, i being the index of its closest organization.
MatchPerson(ps, person, orgs, i) ==
    IF i > 0 /\ Distance(person.start, orgs[i].start) < 50
    THEN AddNearby(ps, orgs[i], [name |-> person.text, title |-> "Signatory"])
    ELSE ps

RECURSIVE MatchPeople(_, _, _)
MatchPeople(ps, persons, orgs) ==
    IF persons = <<>> THEN ps
    ELSE MatchPeople(MatchPerson(ps, Head(persons), orgs, ClosestOrg(Head(persons), orgs)),
                     Tail(persons), orgs)

\* Lines 167-176: the PERSON words of the annotation service.
RECURSIVE NerPeople(_)
NerPeople(results) ==
    IF results = <<>> THEN <<>>
    ELSE (IF Head(results).entity_group = "PERSON" /\ Strip(Head(results).word) # ""
          THEN <<Strip(Head(results).word)>> ELSE <<>>) \o NerPeople(Tail(results))

\* Lines 181-186: the PERSON entities of nlp that are not in the list yet.
RECURSIVE AddSpacyPeople(_, _)
AddSpacyPeople(people, ents) ==
    IF ents = <<>> THEN people
    ELSE AddSpacyPeople(IF Head(ents).label = "PERSON" /\ ~InList(Head(ents).text, people)
                        THEN Append(people, Head(ents).text) ELSE people,
                        Tail(ents))

\* Lines 160-186: signature_entities["people"] (no chunk, and so no call, for
\* an empty text).
SignaturePeople(text, results, ents) ==
    IF text = "" THEN <<>> ELSE AddSpacyPeople(NerPeople(results), ents)

\* Lines 233-239: while no party has a signatory, party i gets person i.
DistributePeople(ps, people) ==
    IF \A i \in 1..Len(ps) : ps[i].signatories = <<>>
    THEN [i \in 1..Len(ps) |->
             IF i <= Len(people)
             THEN [ps[i] EXCEPT !.signatories = <<[name |-> people[i], title |-> "Signatory"]>>]
             ELSE ps[i]]
    ELSE ps

MaxSigLines == 4

SigVocab == {"Acme Inc.", "By: ____", "Name: John Doe", "Title: CEO", "By: Beta LLC"}

NewParty(name) == [name |-> name, type |-> EntityType(name), signatories |-> <<>>]

\* The parties the first part of extract_parties has created.
CreatedParties ==
    {<<>>, <<NewParty("Acme Inc."), NewParty("Beta LLC")>>,
     <<NewParty("Beta LLC"), NewParty("Acme Inc.")>>}

\* What the annotation services may answer on the last pages: the entities of
\* contractbert_ner and the entities of nlp with their token offsets.
SignatureAnswers ==
    {[ner |-> <<>>, ents |-> <<>>],
     [ner |-> <<[entity_group |-> "PERSON", word |-> "John Doe"],
               [entity_group |-> "PERSON", word |-> "John Doe"]>>,
      ents |-> <<>>],
     [ner |-> <<>>,
      ents |-> <<[text |-> "Acme Inc.", label |-> "ORG", start |-> 0],
                 [text |-> "John Doe", label |-> "PERSON", start |-> 8],
                 [text |-> "John Doe", label |-> "PERSON", start |-> 60],
                 [text |-> "Beta LLC", label |-> "ORG", start |-> 70]>>]}

InitSig ==
    /\ pc = "sig_patterns"
    /\ parties \in CreatedParties
    /\ last_pages_text \in {JoinLines(ls) : ls \in SeqsUpTo(SigVocab, MaxSigLines)}
    /\ \E a \in (IF last_pages_text = "" THEN {[ner |-> <<>>, ents |-> <<>>]}
                 ELSE SignatureAnswers) :
          /\ ner_out = a.ner
          /\ spacy_out = [ents |-> a.ents, noun_chunks |-> <<>>, sents |-> <<>>]
    /\ first_pages_text = ""
    /\ potential_parties = <<>>
    /\ idx = 1
    /\ seen_parties = {}
    /\ filtered_parties = <<>>
    /\ txt_lines = <<>>
    /\ articles = <<>>
    /\ json_data = [kind |-> "invalid", pages |-> <<>>]
    /\ txt_file = "none"
    /\ json_success = FALSE
    /\ processed_data = InitialProcessedData
    /\ structured = NothingStored
    /\ metadata = EmptyDict
    /\ entities = EmptyDict
    /\ date_matches = <<>>
    /\ doc_classification = <<>>
    /\ steps = <<>>
    /\ OutputIdle

sigFrame == <<first_pages_text, ner_out, spacy_out, potential_parties, idx, seen_parties,
              filtered_parties, txtVars, resolverVars>>

\* Lines 188-203: the signature-block patterns.
SignaturePatterns ==
    /\ pc = "sig_patterns"
    /\ parties' = AttachAll(parties, AllSignatureMatches(last_pages_text))
    /\ pc' = "sig_proximity"
    /\ UNCHANGED sigFrame

\* Lines 205-230: people near an organization.
SignatureProximity ==
    /\ pc = "sig_proximity"
    /\ parties' = MatchPeople(parties, OfLabel(spacy_out.ents, "PERSON"),
                              OfLabel(spacy_out.ents, "ORG"))
    /\ pc' = "sig_positional"
    /\ UNCHANGED sigFrame

\* Lines 232-241: the people by position, and the return.
SignaturePositional ==
    /\ pc = "sig_positional"
    /\ parties' = DistributePeople(parties,
                      SignaturePeople(last_pages_text, ner_out, spacy_out.ents))
    /\ pc' = "sig_returned"
    /\ UNCHANGED sigFrame

NextSig == SignaturePatterns \/ SignatureProximity \/ SignaturePositional

SpecSig == InitSig /\ [][NextSig]_vars

\* C16: in the list extract_parties returns, no party has two signatories with
\* the same name and title.
C16_NoDuplicateSignatory ==
    pc = "sig_returned" =>
        \A p \in 1..Len(parties) :
            \A i, j \in 1..Len(parties[p].signatories) :
                parties[p].signatories[i] = parties[p].signatories[j] => i = j

\* --------------------------------------------------------------------------
\* The graph output: src/src/cypher_generator.py.
\* --------------------------------------------------------------------------

\* s repeated n times.
RECURSIVE Repeat(_, _)
Repeat(s, n) ==
    IF n = 0 THEN ""
    ELSE IF n % 2 = 1 THEN Repeat(s, n - 1) \o s
    ELSE Repeat(s \o s, n \div 2)

\* Lines 99 and 243-245: value.replace("'", "\\'").
RECURSIVE EscapeQuotes(_)
EscapeQuotes(s) ==
    IF Len(s) = 0 THEN ""
    ELSE IF Len(s) = 1 THEN (IF s = "'" THEN "\\'" ELSE s)
    ELSE EscapeQuotes(SubSeq(s, 1, Len(s) \div 2))
             \o EscapeQuotes(SubSeq(s, Len(s) \div 2 + 1, Len(s)))

\* Line 101: the length above which a section's content is cut.
ContentLimit == 500

\* Line 102: the characters kept in front of the ellipsis.
ContentKeep == 497

\* Lines 101-102.
Truncate(content) ==
    IF Len(content) > ContentLimit THEN SubSeq(content, 1, ContentKeep) \o "..." ELSE content

\* d.get(key, "") and d.get("sections", []).
GetOr(d, key, default) == IF key \in DOMAIN d THEN d[key] ELSE default

\* One  key: 'value'  of a statement.
Property(key, value) == key \o ": '" \o value \o "'"

\* The two properties every node carries.
SourceProperties(document_name, document_id) ==
    Property("sourceDocument", document_name) \o ", " \o Property("documentId", document_id)

\* Lines 40-47.
ContractCypher(md, document_name, document_id, timestamp) ==
    "CREATE (c:Contract {" \o Property("title", md.title) \o ", "
        \o Property("effectiveDate", md.effective_date) \o ", "
        \o Property("documentType", md.document_type) \o ", "
        \o SourceProperties(document_name, document_id) \o ", "
        \o Property("importTimestamp", timestamp) \o " })"

\* Lines 53-58, 68-73 and 83-88: a node with two properties of its own.
NodeCypher(id, label, key1, value1, key2, value2, document_name, document_id) ==
    "CREATE (" \o id \o ":" \o label \o " {" \o Property(key1, value1) \o ", "
        \o Property(key2, value2) \o ", "
        \o SourceProperties(document_name, document_id) \o " })"

\* Lines 104-110 and 251-257: a node with three properties of its own.
Node3Cypher(id, label, number, title, key3, value3, document_name, document_id) ==
    "CREATE (" \o id \o ":" \o label \o " {" \o Property("number", number) \o ", "
        \o Property("title", title) \o ", "
        \o Property(key3, value3) \o ", "
        \o SourceProperties(document_name, document_id) \o " })"

\* Lines 62, 77, 92 and 114.
RelCypher(from, rel, to) == "CREATE (" \o from \o ")-[:" \o rel \o "]->(" \o to \o ")"

\* Lines 66-78: the signatories of the party of index idx (from 0), from k on.
RECURSIVE SignatoryCypher(_, _, _, _, _)
SignatoryCypher(sigs, p, k, document_name, document_id) ==
    IF k > Len(sigs) THEN <<>>
    ELSE <<NodeCypher("s" \o ToString(p) \o "_" \o ToString(k - 1), "Person",
                      "name", sigs[k].name, "title", sigs[k].title,
                      document_name, document_id),
           RelCypher("s" \o ToString(p) \o "_" \o ToString(k - 1), "REPRESENTS",
                     "p" \o ToString(p))>>
         \o SignatoryCypher(sigs, p, k + 1, document_name, document_id)

\* Lines 51-78: the parties from index k on.
RECURSIVE PartyCypher(_, _, _, _)
PartyCypher(ps, k, document_name, document_id) ==
    IF k > Len(ps) THEN <<>>
    ELSE <<NodeCypher("p" \o ToString(k - 1), "Party", "name", ps[k].name,
                      "type", ps[k].type, document_name, document_id),
           RelCypher("p" \o ToString(k - 1), "PARTY_TO", "c")>>
         \o SignatoryCypher(GetOr(ps[k], "signatories", <<>>), k - 1, 1,
                            document_name, document_id)
         \o PartyCypher(ps, k + 1, document_name, document_id)

\* Lines 96-115: the sections of the article of index a (from 0), from k on.
RECURSIVE SectionCypher(_, _, _, _, _)
SectionCypher(secs, a, k, document_name, document_id) ==
    IF k > Len(secs) THEN <<>>
    ELSE <<Node3Cypher("s" \o ToString(a) \o "_" \o ToString(k - 1), "Section",
                       secs[k].number, secs[k].title,
                       "content", Truncate(EscapeQuotes(GetOr(secs[k], "content", ""))),
                       document_name, document_id),
           RelCypher("a" \o ToString(a), "HAS_SECTION",
                     "s" \o ToString(a) \o "_" \o ToString(k - 1))>>
         \o SectionCypher(secs, a, k + 1, document_name, document_id)

\* Lines 81-115: the articles from index k on.
RECURSIVE ArticleCypher(_, _, _, _)
ArticleCypher(arts, k, document_name, document_id) ==
    IF k > Len(arts) THEN <<>>
    ELSE <<NodeCypher("a" \o ToString(k - 1), "Article", "number", arts[k].number,
                      "title", arts[k].title, document_name, document_id),
           RelCypher("c", "CONTAINS", "a" \o ToString(k - 1))>>
         \o SectionCypher(GetOr(arts[k], "sections", <<>>), k - 1, 1,
                          document_name, document_id)
         \o ArticleCypher(arts, k + 1, document_name, document_id)

\* Lines 41-43: the keys the Contract statement reads.
ContractKeys == {"title", "effective_date", "document_type"}

\* generate_neo4j_cypher (lines 18-117), for metadata that has the keys.
generate_neo4j_cypher(md, arts, ps, document_name, document_id, timestamp) ==
    <<ContractCypher(md, document_name, document_id, timestamp)>>
        \o PartyCypher(ps, 1, document_name, document_id)
        \o ArticleCypher(arts, 1, document_name, document_id)

\* Line 239.
ContractRef(document_id) == "(c:Contract {" \o Property("documentId", document_id) \o "})"

\* generate_key_provisions_cypher (lines 223-264), from index k on.
RECURSIVE generate_key_provisions_cypher(_, _, _, _)
generate_key_provisions_cypher(kps, k, document_name, document_id) ==
    IF k > Len(kps) THEN <<>>
    ELSE <<Node3Cypher("kp" \o ToString(k - 1), "KeyProvision",
                       EscapeQuotes(GetOr(kps[k], "number", "")),
                       EscapeQuotes(GetOr(kps[k], "title", "")),
                       "summary", EscapeQuotes(GetOr(kps[k], "summary", "")),
                       document_name, document_id),
           "MATCH " \o ContractRef(document_id) \o " CREATE (c)-[:HAS_KEY_PROVISION]->(kp"
               \o ToString(k - 1) \o ")">>
         \o generate_key_provisions_cypher(kps, k + 1, document_name, document_id)

\* Lines 178-180: the names process_json_file derives from the input path and
\* the clock.
DocumentName == "c.json"
DocumentId == "c"
Timestamp == "2025-05-01 10:00:00"

\* A text of 501 characters, one of 500, and one of 500 with 250 quotes.
LongText == Repeat("x", ContentLimit + 1)
FullText == Repeat("x", ContentLimit)
QuotedText == Repeat("x'", ContentLimit \div 2)

\* What main hands to process_json_file.
CypherMetadata ==
    [title : {"Lease Agreement", "Buyer's Agreement", LongText},
     effective_date : {"May 1, 2025"}, document_type : {"Lease Agreement"}]

CypherParties ==
    {<<>>,
     <<[name |-> "O'Neil Corp.", type |-> "Corporation",
        signatories |-> <<[name |-> "Ann Lee", title |-> "CEO"]>>]>>}

CypherContents == {"", "Tenant's rent.", "Rent is due.", FullText, LongText, QuotedText}

CypherArticles ==
    {<<>>} \cup
    {<<[number |-> "1", numeric_id |-> "1", title |-> "TERM", content |-> c,
        sections |-> <<[number |-> "1.1", title |-> "Rent", content |-> c]>>]>> :
       c \in CypherContents}

CypherProvisions ==
    {<<>>, <<[number |-> "1", title |-> "TERM", summary |-> "1.1: Tenant's rent. "]>>}

\* process_json_file is called; financials, dates, terms and entities are
\* empty, as main computes them (lines 588-591 read pages the argument built
\* at those lines does not have).
InitCypher ==
    /\ pc = "pjf_start"
    /\ metadata \in CypherMetadata
    /\ parties \in CypherParties
    /\ articles \in CypherArticles
    /\ key_provisions \in CypherProvisions
    /\ cypher_commands = <<>>
    /\ written = 0
    /\ chunk_answers = <<>>
    /\ returned = <<>>
    /\ steps = <<"process_json_file">>
    /\ first_pages_text = ""
    /\ last_pages_text = ""
    /\ ner_out = <<>>
    /\ spacy_out = [ents |-> <<>>, noun_chunks |-> <<>>, sents |-> <<>>]
    /\ potential_parties = <<>>
    /\ idx = 1
    /\ seen_parties = {}
    /\ filtered_parties = <<>>
    /\ txt_lines = <<>>
    /\ json_data = [kind |-> "invalid", pages |-> <<>>]
    /\ txt_file = "none"
    /\ json_success = FALSE
    /\ processed_data = InitialProcessedData
    /\ structured = NothingStored
    /\ entities = EmptyDict
    /\ date_matches = <<>>
    /\ doc_classification = <<>>

cypherFrame == <<first_pages_text, ner_out, spacy_out, potential_parties, idx, seen_parties,
                 parties, filtered_parties, txt_lines, articles, json_data, txt_file,
                 json_success, processed_data, structured, metadata, entities, date_matches,
                 doc_classification, last_pages_text, key_provisions, chunk_answers, returned>>

\* Lines 183-185, the metadata having the keys of lines 41-43.
GenerateNeo4jCypher ==
    /\ pc = "pjf_start"
    /\ ContractKeys \subseteq DOMAIN metadata
    /\ cypher_commands' = generate_neo4j_cypher(metadata, articles, parties,
                                                DocumentName, DocumentId, Timestamp)
    /\ steps' = Append(steps, "generate_neo4j_cypher")
    /\ pc' = "pjf_basic"
    /\ UNCHANGED <<written, cypherFrame>>

\* Lines 183-185 and 218-220: a metadata dict without one of the keys raises
\* KeyError at line 41, 42 or 43, and process_json_file raises it again.
GenerateNeo4jCypherRaises ==
    /\ pc = "pjf_start"
    /\ ~(ContractKeys \subseteq DOMAIN metadata)
    /\ steps' = Append(steps, "generate_neo4j_cypher")
    /\ pc' = "pjf_raised"
    /\ UNCHANGED <<cypher_commands, written, cypherFrame>>

\* Lines 188-211: the key provisions, when there are some; the other four
\* lists are empty.
GenerateKeyProvisionsCypher ==
    /\ pc = "pjf_basic"
    /\ cypher_commands' =
           IF key_provisions # <<>>
           THEN cypher_commands
                    \o generate_key_provisions_cypher(key_provisions, 1, DocumentName, DocumentId)
           ELSE cypher_commands
    /\ pc' = "pjf_generated"
    /\ UNCHANGED <<written, steps, cypherFrame>>

\* Lines 214-216 and 120-146: the statements go to the output file.
WriteCypherToFile ==
    /\ pc = "pjf_generated"
    /\ written' = written + 1
    /\ steps' = Append(steps, "write_cypher_to_file")
    /\ pc' = "pjf_written"
    /\ UNCHANGED <<cypher_commands, cypherFrame>>

NextCypher ==
    \/ GenerateNeo4jCypher
    \/ GenerateKeyProvisionsCypher
    \/ WriteCypherToFile

SpecCypher == InitCypher /\ [][NextCypher]_vars

\* Number of backslashes right in front of position i of s.
RECURSIVE SlashesBefore(_, _)
SlashesBefore(s, i) ==
    IF i > 1 /\ SubSeq(s, i - 1, i - 1) = "\\" THEN 1 + SlashesBefore(s, i - 1) ELSE 0

\* The positions of the quotes of s that no backslash escapes: the quotes that
\* open or close a literal when the statement is read.
BareQuotes(s) ==
    {i \in 1..Len(s) : SubSeq(s, i, i) = "'" /\ SlashesBefore(s, i) % 2 = 0}

\* The k-th smallest member of Q.
Nth(Q, k) == CHOOSE p \in Q : Cardinality({q \in Q : q < p}) = k - 1

\* The literals between the successive pairs of the quotes at Q.
LiteralsBetween(s, Q) ==
    {SubSeq(s, Nth(Q, 2 * k - 1) + 1, Nth(Q, 2 * k) - 1) : k \in 1..(Cardinality(Q) \div 2)}

\* The quoted literals of a statement, as a reader of the statement finds them.
Literals(s) == LiteralsBetween(s, BareQuotes(s))

\* The value of a field of the elements of a list, and of several lists.
FieldValues(xs, key) == {GetOr(xs[i], key, "") : i \in 1..Len(xs)}

NestedValues(xs, inner, key) ==
    UNION {FieldValues(GetOr(xs[i], inner, <<>>), key) : i \in 1..Len(xs)}

\* Every string value the statements embed.
EmbeddedValues ==
    {metadata.title, metadata.effective_date, metadata.document_type,
     DocumentName, DocumentId, Timestamp}
        \cup FieldValues(parties, "name") \cup FieldValues(parties, "type")
        \cup NestedValues(parties, "signatories", "name")
        \cup NestedValues(parties, "signatories", "title")
        \cup FieldValues(articles, "number") \cup FieldValues(articles, "title")
        \cup NestedValues(articles, "sections", "number")
        \cup NestedValues(articles, "sections", "title")
        \cup NestedValues(articles, "sections", "content")
        \cup FieldValues(key_provisions, "number") \cup FieldValues(key_provisions, "title")
        \cup FieldValues(key_provisions, "summary")

\* A value with its quotes escaped, whole or cut.
EscapedForms(values) ==
    {EscapeQuotes(v) : v \in values} \cup {Truncate(EscapeQuotes(v)) : v \in values}

AllLiterals(cmds) == UNION {Literals(cmds[i]) : i \in 1..Len(cmds)}

LiteralsAmong(lits, forms) == lits \subseteq forms

\* C17: in the statements process_json_file has generated, every quote of an
\* embedded value is escaped: read back, the literals of the statements are the
\* embedded values with their quotes escaped, none ends before its value does.
C17_QuotesEscaped ==
    pc = "pjf_generated" =>
        LiteralsAmong(AllLiterals(cypher_commands), EscapedForms(EmbeddedValues))

\* The section contents of the Articles.
SectionContents == NestedValues(articles, "sections", "content")

\* C18: every literal of the generated statements has at most 500 characters,
\* and a section content of at most 500 characters is embedded in full.
C18_ValuesAtMostLimit ==
    pc = "pjf_generated" =>
        /\ \A lit \in AllLiterals(cypher_commands) : Len(lit) <= ContentLimit
        /\ \A c \in SectionContents :
              Len(c) <= ContentLimit => EscapeQuotes(c) \in AllLiterals(cypher_commands)

\* --------------------------------------------------------------------------
\* main: src/src/json_to_neo4j.py lines 552-608.
\* --------------------------------------------------------------------------

\* Lines 206-210.
important_keywords ==
    {"scope", "purpose", "term", "payment", "confidential", "intellectual property",
     "termination", "governing law", "indemnification", "warranty", "liability",
     "obligations", "representations", "warranties", "compliance", "assignment"}

\* Lines 213-241: the title has a keyword, or the Article has content and the
\* classifier, called on it, answers a keyword label with a score above 0.7
\* (classified).
IsImportant(article, classified) ==
    \/ ContainsAny(Lower(GetOr(article, "title", "")), important_keywords)
    \/ GetOr(article, "content", "") # "" /\ classified

\* extract_key_provisions (lines 201-262).  The summary is made of the section
\* contents, which the Article records here do not carry.
RECURSIVE extract_key_provisions(_, _)
extract_key_provisions(arts, classified) ==
    IF arts = <<>> THEN <<>>
    ELSE (IF IsImportant(Head(arts), classified)
          THEN <<[number |-> GetOr(Head(arts), "number", ""),
                  title |-> GetOr(Head(arts), "title", ""), summary |-> ""]>>
          ELSE <<>>) \o extract_key_provisions(Tail(arts), classified)

mainFrame == <<first_pages_text, ner_out, spacy_out, potential_parties, idx, seen_parties,
               filtered_parties, txt_lines, json_data, txt_file, json_success,
               processed_data, structured, entities, date_matches, doc_classification,
               last_pages_text, chunk_answers, returned>>

\* Lines 576-594: process_with_fallback has returned; main takes the metadata,
\* the Articles and the parties out of the result, extracts the key provisions
\* (the financials, dates, terms and entities of lines 588-591 are empty: the
\* argument built there has no pages) and calls process_json_file.
CallProcessJsonFile ==
    /\ pc = "returned"
    /\ metadata' = processed_data.metadata
    /\ articles' = processed_data.articles
    /\ parties' = processed_data.parties
    /\ \E classified \in BOOLEAN :
          key_provisions' = extract_key_provisions(processed_data.articles, classified)
    /\ steps' = Append(steps, "process_json_file")
    /\ pc' = "pjf_start"
    /\ UNCHANGED <<cypher_commands, written, mainFrame>>

\* Lines 606-608: an exception of process_with_fallback or of
\* process_json_file ends the run with status 1.
ExitWithError ==
    /\ pc \in {"raised", "pjf_raised"}
    /\ pc' = "exit_1"
    /\ UNCHANGED <<metadata, articles, parties, key_provisions, steps, cypher_commands,
                   written, mainFrame>>

NextMain ==
    \/ LoadJson
    \/ ExtractStructured
    \/ TxtFallback
    \/ SkipFallback
    \/ Return
    \/ CallProcessJsonFile
    \/ GenerateNeo4jCypher
    \/ GenerateNeo4jCypherRaises
    \/ GenerateKeyProvisionsCypher
    \/ WriteCypherToFile
    \/ ExitWithError

SpecMain == InitOrch /\ [][NextMain]_vars

\* Number of calls of a function in the run so far.
Calls(name) == Cardinality({i \in 1..Len(steps) : steps[i] = name})

\* process_with_fallback has not returned.
NotReturned == pc \in {"start", "json_extract", "json_tried", "fallback_done", "hybrid_done", "raised"}

\* The result holds no metadata and no Articles.
Unresolved == processed_data.metadata = EmptyDict /\ processed_data.articles = <<>>

MainEnded == pc \in {"pjf_written", "exit_1"}

\* C19: process_json_file is never called before process_with_fallback has
\* returned nor for a result without metadata and without Articles, and when
\* main has ended after a resolved result it was called exactly once.
C19_WriterOncePerResolved ==
    /\ NotReturned => Calls("process_json_file") = 0
    /\ Unresolved => Calls("process_json_file") = 0
    /\ (MainEnded /\ ~Unresolved) => Calls("process_json_file") = 1

\* --------------------------------------------------------------------------
\* The chunk loops over the annotation service: extract_contract_metadata of
\* src/src/extract (lines 61-85) and of src/extract (lines 46-57), and
\* extract_articles of src/src/extract (lines 42-56).
\* --------------------------------------------------------------------------

MaxChunks == 3

\* What contractbert_ner may answer on one chunk.
NerResults ==
    {<<>>,
     <<[entity_group |-> "DATE", word |-> "May 1, 2025"]>>,
     <<[entity_group |-> "ORG", word |-> "ARTICLE 1 - SCOPE."],
       [entity_group |-> "DATE", word |-> "May 1"]>>}

\* One call of the service: it raises, or it answers.
ChunkAnswers == [raises : {TRUE}, results : {<<>>}] \cup [raises : {FALSE}, results : NerResults]

\* src/extract/metadata.py line 43.
LegacyEmptyEntities ==
    [DATE |-> <<>>, ORG |-> <<>>, PERSON |-> <<>>, MONEY |-> <<>>, TIME |-> <<>>]

\* src/extract/metadata.py lines 52-55.
RECURSIVE LegacyGroupEntities(_, _)
LegacyGroupEntities(ents, results) ==
    IF results = <<>> THEN ents
    ELSE LegacyGroupEntities(
             IF Head(results).entity_group \in DOMAIN ents
             THEN [ents EXCEPT ![Head(results).entity_group] = Append(@, Head(results).word)]
             ELSE ents,
             Tail(results))

\* articles.py (src/src) lines 52-54.
IsStructureEntity(entity, ms) ==
    /\ entity.entity_group \in {"ORG", "LAW"}
    /\ Contains(Upper(entity.word), "ARTICLE") \/ \E i \in 1..Len(ms) : ms[i].start = 0

\* articles.py (src/src) lines 46-56 for the chunk of index i (from 0).
RECURSIVE StructureEntities(_, _, _)
StructureEntities(acc, results, i) ==
    IF results = <<>> THEN acc
    ELSE StructureEntities(
             IF IsStructureEntity(Head(results), AllPatternMatches(<<Head(results).word>>, TRUE))
             THEN Append(acc, [type |-> "article", text |-> Head(results).word, chunk_idx |-> i])
             ELSE acc,
             Tail(results), i)

InitChunks ==
    /\ pc \in {"ner_chunks", "legacy_chunks", "structure_chunks"}
    /\ chunk_answers \in SeqsUpTo(ChunkAnswers, MaxChunks)
    /\ returned = <<>>
    /\ entities = (CASE pc = "ner_chunks" -> EmptyEntities
                     [] pc = "legacy_chunks" -> LegacyEmptyEntities
                     [] OTHER -> <<>>)
    /\ idx = 1
    /\ cypher_commands = <<>>
    /\ key_provisions = <<>>
    /\ written = 0
    /\ steps = <<>>
    /\ metadata = DefaultMetadata
    /\ first_pages_text = ""
    /\ last_pages_text = ""
    /\ ner_out = <<>>
    /\ spacy_out = [ents |-> <<>>, noun_chunks |-> <<>>, sents |-> <<>>]
    /\ potential_parties = <<>>
    /\ seen_parties = {}
    /\ parties = <<>>
    /\ filtered_parties = <<>>
    /\ txt_lines = <<>>
    /\ articles = <<>>
    /\ json_data = [kind |-> "invalid", pages |-> <<>>]
    /\ txt_file = "none"
    /\ json_success = FALSE
    /\ processed_data = InitialProcessedData
    /\ structured = NothingStored
    /\ date_matches = <<>>
    /\ doc_classification = <<>>

chunkFrame == <<first_pages_text, ner_out, spacy_out, potential_parties, seen_parties,
                parties, filtered_parties, txtVars, metadata, date_matches,
                doc_classification, last_pages_text, steps, cypher_commands,
                key_provisions, written, chunk_answers, returned>>

\* metadata.py (src/src) lines 70-85, one turn of the loop: the call is not
\* inside a try, so an exception of the service leaves the function.
NerChunk ==
    /\ pc = "ner_chunks"
    /\ idx <= Len(chunk_answers)
    /\ IF chunk_answers[idx].raises
       THEN pc' = "ner_raised" /\ UNCHANGED <<entities, idx>>
       ELSE /\ entities' = GroupEntities(entities, chunk_answers[idx].results)
            /\ idx' = idx + 1
            /\ UNCHANGED pc
    /\ UNCHANGED chunkFrame

\* metadata.py (src/src) line 70: no chunk is left.
NerChunksDone ==
    /\ pc = "ner_chunks"
    /\ idx > Len(chunk_answers)
    /\ pc' = "ner_done"
    /\ UNCHANGED <<entities, idx, chunkFrame>>

\* src/extract/metadata.py lines 46-57, one turn of the loop: the exception is
\* caught and the loop goes on.
LegacyNerChunk ==
    /\ pc = "legacy_chunks"
    /\ idx <= Len(chunk_answers)
    /\ entities' = IF chunk_answers[idx].raises THEN entities
                   ELSE LegacyGroupEntities(entities, chunk_answers[idx].results)
    /\ idx' = idx + 1
    /\ UNCHANGED <<pc, chunkFrame>>

\* src/extract/metadata.py line 46: no chunk is left.
LegacyNerChunksDone ==
    /\ pc = "legacy_chunks"
    /\ idx > Len(chunk_answers)
    /\ pc' = "legacy_done"
    /\ UNCHANGED <<entities, idx, chunkFrame>>

\* articles.py (src/src) lines 42-56, one turn of the loop: the call is not
\* inside a try.
StructureChunk ==
    /\ pc = "structure_chunks"
    /\ idx <= Len(chunk_answers)
    /\ IF chunk_answers[idx].raises
       THEN pc' = "structure_raised" /\ UNCHANGED <<entities, idx>>
       ELSE /\ entities' = StructureEntities(entities, chunk_answers[idx].results, idx - 1)
            /\ idx' = idx + 1
            /\ UNCHANGED pc
    /\ UNCHANGED chunkFrame

\* articles.py (src/src) line 42: no chunk is left.
StructureChunksDone ==
    /\ pc = "structure_chunks"
    /\ idx > Len(chunk_answers)
    /\ pc' = "structure_done"
    /\ UNCHANGED <<entities, idx, chunkFrame>>

NextChunks ==
    \/ NerChunk
    \/ NerChunksDone
    \/ LegacyNerChunk
    \/ LegacyNerChunksDone
    \/ StructureChunk
    \/ StructureChunksDone

SpecChunks == InitChunks /\ [][NextChunks]_vars

\* The answers with every raising call replaced by an empty answer.
RECURSIVE EmptyWhereRaised(_)
EmptyWhereRaised(answers) ==
    IF answers = <<>> THEN <<>>
    ELSE <<IF Head(answers).raises THEN <<>> ELSE Head(answers).results>>
             \o EmptyWhereRaised(Tail(answers))

\* The evidence of a list of answers, chunk by chunk from index i (from 0).
RECURSIVE EvidenceOf(_, _, _, _)
EvidenceOf(kind, acc, results, i) ==
    IF results = <<>> THEN acc
    ELSE EvidenceOf(kind,
                    CASE kind = "ner" -> GroupEntities(acc, Head(results))
                      [] kind = "legacy" -> LegacyGroupEntities(acc, Head(results))
                      [] OTHER -> StructureEntities(acc, Head(results), i),
                    Tail(results), i + 1)

ChunkLoopEnded ==
    pc \in {"ner_done", "ner_raised", "legacy_done", "structure_done", "structure_raised"}

\* C20: a chunk loop whose call of the annotation service raises on a chunk
\* does not fail: it ends with the evidence of the other chunks, the raising
\* chunk counting as an empty answer.
C20_RaisingChunkIsEmptyEvidence ==
    ChunkLoopEnded =>
        /\ pc \notin {"ner_raised", "structure_raised"}
        /\ pc = "ner_done" =>
              entities = EvidenceOf("ner", EmptyEntities, EmptyWhereRaised(chunk_answers), 0)
        /\ pc = "legacy_done" =>
              entities = EvidenceOf("legacy", LegacyEmptyEntities,
                                    EmptyWhereRaised(chunk_answers), 0)
        /\ pc = "structure_done" =>
              entities = EvidenceOf("structure", <<>>, EmptyWhereRaised(chunk_answers), 0)

(***************************************************************************)
(* The sections of an Article of the text Segmenter                        *)
(* (src/src/extract/txt_parser.py, extract_sections_from_text) and the     *)
(* worked example  ARTICLE I - DEFINITIONS / 1.1 Term / ...                *)
(***************************************************************************)

\* Index after  \d+\.\d+  tried at index i of s (0 if it does not match there).
DottedPairEnd(s, i) ==
    LET d1 == RunEnd(s, i, Digits)
        d2 == RunEnd(s, d1 + 1, Digits)
    IN  IF d1 > i /\ d1 <= Len(s) /\ CharAt(s, d1) = "." /\ d2 > d1 + 1 THEN d2 ELSE 0

\* The (number-start, number-end) of group 1 of SECTION_PATTERNS[kind] tried
\* at index i of s: the indices of the first character of the number and of
\* the first character after what precedes \s+ ; <<0, 0, 0>> if no match.
SectionHead(s, i, kind) ==
    CASE kind = 1 ->
           LET e == DottedPairEnd(s, i) IN IF e > 0 THEN <<i, e, e>> ELSE <<0, 0, 0>>
      [] kind = 2 ->
           LET e  == DottedPairEnd(s, i)
               d3 == IF e > 0 THEN RunEnd(s, e + 1, Digits) ELSE 0
           IN  IF e > 0 /\ e <= Len(s) /\ CharAt(s, e) = "." /\ d3 > e + 1
               THEN <<i, d3, d3>> ELSE <<0, 0, 0>>
      [] kind = 3 ->
           LET e == DottedPairEnd(s, i)
           IN  IF e > 0 /\ e <= Len(s) /\ CharAt(s, e) \in LowerLetters
               THEN <<i, e + 1, e + 1>> ELSE <<0, 0, 0>>
      [] kind = 4 ->
           IF /\ i + 1 <= Len(s)
              /\ LowerChar(CharAt(s, i)) \in LowerLetters
              /\ CharAt(s, i + 1) = "."
           THEN <<i, i + 1, i + 2>> ELSE <<0, 0, 0>>
      [] OTHER ->
           IF /\ i + 2 <= Len(s)
              /\ CharAt(s, i) = "("
              /\ CharAt(s, i + 1) \in LowerLetters
              /\ CharAt(s, i + 2) = ")"
           THEN <<i + 1, i + 2, i + 3>> ELSE <<0, 0, 0>>

\* SECTION_PATTERNS[kind] tried at index i of s: the number, \s+, and the rest
\* of the line reached as the title.
SectionHeader(s, i, kind) ==
    LET h  == SectionHead(s, i, kind)
        w  == RunEnd(s, h[3], {" ", "\n", "\t"})
        le == RunEnd(s, w, {c \in {CharAt(s, p) : p \in 1..Len(s)} : c # "\n"})
    IN  IF h[1] > 0 /\ w > h[3]
        THEN [number |-> SubSeq(s, h[1], h[2] - 1),
              title  |-> Strip(SubSeq(s, w, le - 1)),
              start  |-> i - 1,
              end    |-> le - 1]
        ELSE NoMatch

\* re.finditer(SECTION_PATTERNS[kind], article_text, re.MULTILINE) from index i:
\* the leftmost match, then the matches after its end.
RECURSIVE SectionMatches(_, _, _)
SectionMatches(s, i, kind) ==
    LET hits == {at \in i..Len(s) : SectionHeader(s, at, kind) # NoMatch}
    IN  IF hits = {} THEN <<>>
        ELSE LET at == CHOOSE a \in hits : \A b \in hits : a <= b
                 m  == SectionHeader(s, at, kind)
             IN  <<m>> \o SectionMatches(s, m.end + 1, kind)

\* extract_sections_from_text(article, article_text): the matches of the five
\* SECTION_PATTERNS by position, the content of each up to the next match.
extract_sections_from_text(article_text) ==
    LET ms == SortByStart(SectionMatches(article_text, 1, 1)
                          \o SectionMatches(article_text, 1, 2)
                          \o SectionMatches(article_text, 1, 3)
                          \o SectionMatches(article_text, 1, 4)
                          \o SectionMatches(article_text, 1, 5))
    IN  [i \in 1..Len(ms) |->
            [number  |-> ms[i].number,
             title   |-> ms[i].title,
             content |-> Strip(Slice(article_text, ms[i].end,
                                 IF i < Len(ms) THEN ms[i + 1].start
                                 ELSE Len(article_text)))]]

ExampleLines ==
    <<"ARTICLE I - DEFINITIONS", "1.1 Term", "The Term means...",
      "ARTICLE II - PAYMENT", "2.1 Fees", "Fees are due...">>

\* The lines of `lines` whose index is in S, in their order.
RECURSIVE PickLines(_, _, _)
PickLines(lines, S, i) ==
    IF i > Len(lines) THEN <<>>
    ELSE (IF i \in S THEN <<lines[i]>> ELSE <<>>) \o PickLines(lines, S, i + 1)

\* The example document and the documents made of some of its lines.
ExampleTexts == {PickLines(ExampleLines, S, 1) : S \in SUBSET (1..Len(ExampleLines))}

InitExample ==
    /\ pc = "seg_input"
    /\ txt_lines \in ExampleTexts
    /\ ner_out \in EntityAnswers(txt_lines)
    /\ spacy_out \in [ents : {<<>>}, noun_chunks : {<<>>}, sents : SentenceAnswers(txt_lines)]
    /\ first_pages_text = ""
    /\ potential_parties = <<>>
    /\ idx = 1
    /\ seen_parties = {}
    /\ parties = <<>>
    /\ filtered_parties = <<>>
    /\ articles = <<>>
    /\ OrchestratorIdle

SpecExample == InitExample /\ [][NextSeg]_vars

\* C21: segmenting the example text (one item per line) yields exactly the
\* two Articles "I" and "II"; with the text Segmenter each has exactly one
\* Section ("1.1", "2.1"), and Section "1.1" has the content
\* "The Term means...": no other header pattern adds an Article or a Section.
C21_ExampleTwoArticles ==
    (pc \in {"seg_text_returned", "seg_structured_returned", "seg_legacy_returned"}
     /\ txt_lines = ExampleLines)
        => /\ Len(articles) = 2
           /\ articles[1].number = "I"
           /\ articles[2].number = "II"
           /\ pc = "seg_text_returned" =>
                LET s1 == extract_sections_from_text(articles[1].content)
                    s2 == extract_sections_from_text(articles[2].content)
                IN  /\ Len(s1) = 1 /\ s1[1].number = "1.1"
                    /\ s1[1].content = "The Term means..."
                    /\ Len(s2) = 1 /\ s2[1].number = "2.1"

(***************************************************************************)
(* Repeated calls of extract_contract_metadata                             *)
(* (src/src/extract/metadata.py): what one call leaves for the next.       *)
(***************************************************************************)

MaxCalls == 3

TwiceTexts == {"", "Effective Date: April 29, 2025", "dated as of 1 May 2024"}

TwiceAnswers == {<<>>, <<[entity_group |-> "DATE", word |-> "1 May 2024"]>>}

TwiceClassifications == {<<>>, <<[label |-> "LABEL_6", score |-> 95]>>}

\* Line 20: every call builds its metadata dict anew, whatever dict the
\* previous call returned.
EntryMetadataShared(previous) == previous

EntryMetadata(previous) == DefaultMetadata

InitTwice ==
    /\ pc = "twice_idle"
    /\ first_pages_text = ""
    /\ ner_out = <<>>
    /\ date_matches = <<>>
    /\ doc_classification = <<>>
    /\ last_pages_text = ""
    /\ metadata = DefaultMetadata
    /\ entities = EmptyEntities
    /\ steps = <<>>
    /\ OutputIdle
    /\ spacy_out = [ents |-> <<>>, noun_chunks |-> <<>>, sents |-> <<>>]
    /\ potential_parties = <<>>
    /\ idx = 1
    /\ seen_parties = {}
    /\ parties = <<>>
    /\ filtered_parties = <<>>
    /\ txt_lines = <<>>
    /\ articles = <<>>
    /\ json_data = [kind |-> "invalid", pages |-> <<>>]
    /\ txt_file = "none"
    /\ json_success = FALSE
    /\ processed_data = InitialProcessedData
    /\ structured = NothingStored

\* A caller calls extract_contract_metadata(data, nlp, contractbert_ner,
\* contractbert_classifier): the page text and the services' answers of this
\* call, and line 20.
CallExtractContractMetadata ==
    /\ pc = "twice_idle"
    /\ Len(returned) < MaxCalls
    /\ \E text \in TwiceTexts :
          /\ first_pages_text' = text
          /\ date_matches' \in PatternDateAnswers(text)
    /\ ner_out' \in TwiceAnswers
    /\ doc_classification' \in TwiceClassifications
    /\ metadata' = EntryMetadata(metadata)
    /\ steps' = <<>>
    /\ pc' = "date_start"
    /\ UNCHANGED <<spacy_out, potential_parties, idx, seen_parties, parties,
                   filtered_parties, txtVars, entities, last_pages_text, outputVars>>

\* Lines 37-58 and 245: the confident label becomes the document type, and the
\* dict is returned to the caller.
ReturnMetadata ==
    /\ pc = "date_done"
    /\ metadata' = IF document_type(doc_classification) # "Contract"
                   THEN [metadata EXCEPT !.document_type = document_type(doc_classification)]
                   ELSE metadata
    /\ returned' = Append(returned, [text           |-> first_pages_text,
                                     ner            |-> ner_out,
                                     matches        |-> date_matches,
                                     classification |-> doc_classification,
                                     metadata       |-> metadata'])
    /\ pc' = "twice_idle"
    /\ UNCHANGED <<first_pages_text, ner_out, spacy_out, potential_parties, idx,
                   seen_parties, parties, filtered_parties, txtVars, entities,
                   date_matches, doc_classification, last_pages_text, steps,
                   cypher_commands, key_provisions, written, chunk_answers>>

NextTwice == CallExtractContractMetadata \/ NextDate \/ ReturnMetadata

SpecTwice == InitTwice /\ [][NextTwice]_vars

SameInput(a, b) ==
    /\ a.text = b.text
    /\ a.ner = b.ner
    /\ a.matches = b.matches
    /\ a.classification = b.classification

MaxCandidates == 2

ProximityVocab ==
    {"Signed on March 3, 2022", "effective date April 29, 2025",
     "1 May 2024 was the offer", "dated as of 1 May 2024",
     "Effective Date: April 29, 2025"}

ProximityWords == {"March 3, 2022", "April 29, 2025", "1 May 2024"}

InitProximity ==
    /\ pc = "date_start"
    /\ first_pages_text \in {JoinLines(ls) : ls \in SeqsUpTo(ProximityVocab, MaxDateLines)}
    /\ ner_out \in SeqsUpTo([entity_group : {"DATE"}, word : ProximityWords], MaxCandidates)
    /\ date_matches = <<>>
    /\ doc_classification = <<>>
    /\ last_pages_text = ""
    /\ metadata = DefaultMetadata
    /\ entities = EmptyEntities
    /\ steps = <<>>
    /\ OutputIdle
    /\ spacy_out = [ents |-> <<>>, noun_chunks |-> <<>>, sents |-> <<>>]
    /\ potential_parties = <<>>
    /\ idx = 1
    /\ seen_parties = {}
    /\ parties = <<>>
    /\ filtered_parties = <<>>
    /\ txt_lines = <<>>
    /\ articles = <<>>
    /\ json_data = [kind |-> "invalid", pages |-> <<>>]
    /\ txt_file = "none"
    /\ json_success = FALSE
    /\ processed_data = InitialProcessedData
    /\ structured = NothingStored

SpecProximity == InitProximity /\ [][NextDate]_vars

\* The 0-based offsets at which the date occurs in the page text, in any case.
Occurrences(lowered, date) ==
    {p \in 0..(Len(lowered) - Len(date)) : SubSeq(lowered, p + 1, p + Len(date)) = Lower(date)}

\* The least distance of an occurrence of the date strictly after the context
\* at cpos and less than 100 characters on (100 when there is none).
DistanceAfter(lowered, cpos, date) ==
    LET near == {p \in Occurrences(lowered, date) : p > cpos /\ p - cpos < 100}
    IN  IF near = {} THEN 100 ELSE Least(near) - cpos

\* The candidates at the least distance after the first context phrase that
\* has a candidate after it ({} when no phrase has one).
RECURSIVE ClaimedClosest(_, _, _)
ClaimedClosest(text, contexts, dates) ==
    IF contexts = <<>> THEN {}
    ELSE LET cpos == Find(NormalizedText(text), Head(contexts))
             dist == [i \in 1..Len(dates) |-> DistanceAfter(Lower(text), cpos, dates[i])]
         IN  IF cpos >= 0 /\ \E i \in 1..Len(dates) : dist[i] < 100
             THEN {dates[i] : i \in {k \in 1..Len(dates) : \A j \in 1..Len(dates) : dist[k] <= dist[j]}}
             ELSE ClaimedClosest(text, Tail(contexts), dates)

ProximityRan == pc \in {"date_done", "date_generic"} /\ steps = <<"direct", "proximity">>

\* C23: when the proximity strategy has run, then for the first context phrase
\* of DATE_CONTEXTS that occurs in the page with a candidate date strictly
\* after it and less than 100 characters on, effective_date is a candidate at
\* the least distance: for every candidate that occurs in the page text,
\* whatever punctuation it holds and however often it occurs.
C23_ClosestCandidateAfterContext ==
    ProximityRan =>
        LET closest == ClaimedClosest(first_pages_text, DATE_CONTEXTS,
                                      ExtendDates(entities.DATE, date_matches))
        IN  closest # {} => metadata.effective_date \in closest

\* Every party of the list is without a signatory.
NoSignatories(ps) == \A i \in 1..Len(ps) : ps[i].signatories = <<>>

\* C24: the signatory strategies of extract_parties form a cascade: the
\* proximity strategy adds a signatory only if the signature patterns attached
\* none to any party, and the positional strategy adds one only if every party
\* is still without a signatory after the proximity strategy.
C24_SignatoryCascade ==
    [][(pc \in {"sig_proximity", "sig_positional"} /\ parties' # parties)
           => NoSignatories(parties)]_vars

\* The matches of ARTICLE_PATTERNS[k - 1] alone.
MatchesOfPattern(lines, k, ic) ==
    CASE k = 1 -> KeywordMatches(lines, 1, "ARTICLE", {"I", "V", "X", "i", "v", "x"}, TRUE,
                                 ArticleSeparators, ic)
      [] k = 2 -> KeywordMatches(lines, 1, "ARTICLE", Digits, TRUE, ArticleSeparators, ic)
      [] k = 3 -> NumberedMatches(lines, 1, ic)
      [] k = 4 -> BareLineMatches(lines, 1, ic)
      [] OTHER -> KeywordMatches(lines, 1, "SECTION", Digits, FALSE, {".", ":"}, ic)

\* The headers of the first pattern, in listed order, that matches anywhere.
FirstPatternHeaders(lines, ic) ==
    LET hit == {k \in 1..5 : MatchesOfPattern(lines, k, ic) # <<>>}
    IN  IF hit = {} THEN {}
        ELSE LET ms == MatchesOfPattern(lines, Least(hit), ic)
             IN  {<<ms[i].number, ms[i].title>> : i \in 1..Len(ms)}

\* C25: the entries of ARTICLE_PATTERNS are tried in their listed order, and
\* only the first one that matches anywhere contributes Articles: the Articles
\* returned by extract_articles_from_text and by extract_articles of
\* src/extract are the headers that pattern matched.
C25_FirstPatternOnly ==
    LET ic == (pc = "seg_text_returned")
    IN  (pc \in {"seg_text_returned", "seg_legacy_returned"}
         /\ FirstPatternHeaders(txt_lines, ic) # {})
            => {<<articles[i].number, articles[i].title>> : i \in 1..Len(articles)}
                   = FirstPatternHeaders(txt_lines, ic)

(***************************************************************************)
(* Roman article numbers: ROMAN_TO_NUMBER and the sort by numeric_id.      *)
(***************************************************************************)

RomanVocab == {"ARTICLE II - TERM.", "ARTICLE i - SCOPE.", "ARTICLE XXI - FEES."}

InitRoman ==
    /\ pc = "seg_input"
    /\ txt_lines \in SeqsUpTo(RomanVocab, MaxLines)
    /\ ner_out \in EntityAnswers(txt_lines)
    /\ spacy_out \in [ents : {<<>>}, noun_chunks : {<<>>}, sents : SentenceAnswers(txt_lines)]
    /\ first_pages_text = ""
    /\ potential_parties = <<>>
    /\ idx = 1
    /\ seen_parties = {}
    /\ parties = <<>>
    /\ filtered_parties = <<>>
    /\ articles = <<>>
    /\ OrchestratorIdle

SpecRoman == InitRoman /\ [][NextSeg]_vars

RomanNumerals ==
    <<"I", "II", "III", "IV", "V", "VI", "VII", "VIII", "IX", "X",
      "XI", "XII", "XIII", "XIV", "XV", "XVI", "XVII", "XVIII", "XIX", "XX">>

\* The Arabic value of a Roman numeral from I to XX in any case, else the
\* number as it stands.
ClaimedNumericId(number) ==
    IF \E k \in 1..Len(RomanNumerals) : RomanNumerals[k] = Upper(number)
    THEN ToString(CHOOSE k \in 1..Len(RomanNumerals) : RomanNumerals[k] = Upper(number))
    ELSE number

\* C26: the numeric_id of an Article is the Arabic value of its number when
\* that is a Roman numeral from I to XX in any case, and the number verbatim
\* otherwise; when the numeric_id of some Article is not an integer (XXI), the
\* sort leaves the whole list in discovery order.
C26_RomanNumericId ==
    pc \in {"seg_text_returned", "seg_structured_returned", "seg_legacy_returned"} =>
        /\ \A i \in 1..Len(articles) :
              articles[i].numeric_id = ClaimedNumericId(articles[i].number)
        /\ ~AllIntegerIds(articles) => HeadersOf(articles) = DiscoveredArticles

\* extract_articles returned the Article XXI, which has no integer id, before
\* the Article i, whose id is 1.
C26_Witness ==
    /\ pc = "seg_structured_returned"
    /\ Len(articles) = 2
    /\ articles[1].number = "XXI" /\ articles[1].numeric_id = "XXI"
    /\ articles[2].number = "i" /\ articles[2].numeric_id = "1"

(***************************************************************************)
(* process_with_fallback on pages from which the structured extraction     *)
(* would draw an Article with content (src/src/json_to_neo4j.py lines      *)
(* 463-486, src/src/extract/articles.py lines 131-265).                    *)
(***************************************************************************)

\* Python's s.split("\n").
RECURSIVE SplitLines(_)
SplitLines(s) ==
    IF Find(s, "\n") = -1 THEN <<s>>
    ELSE <<Slice(s, 0, Find(s, "\n"))>> \o SplitLines(Slice(s, Find(s, "\n") + 1, Len(s)))

\* articles.py (src/src) lines 132-165: the text of Article i ("" when its
\* start is not found).
ArticleTextOf(text, as, i) ==
    LET start == ArticleStartIdx(text, as, i,
                     HeaderOffset(text, as[i].number, as[i].title, as[i].title # ""))
    IN  IF start >= 0
        THEN Slice(text, start, ArticleEndIdx(text, start, NextHeaderOffset(text, as, i, start)))
        ELSE ""

\* Lines 256-263: the end of the leftmost match of the first entry of
\* ARTICLE_PATTERNS that matches in the Article's text (0 when none does).
ContentStart(article_text) ==
    LET lines == SplitLines(article_text)
        hit   == {k \in 1..5 : MatchesOfPattern(lines, k, FALSE) # <<>>}
    IN  IF hit = {} THEN 0 ELSE MatchesOfPattern(lines, Least(hit), FALSE)[1].end

\* Lines 254-265: the content of an Article in which no Section was found.
ArticleContent(article_text) ==
    Strip(Slice(article_text, ContentStart(article_text), Len(article_text)))

\* The contents of the Articles extract_articles (src/src) returns for pages
\* that hold no section header.
StructuredContents(lines, words, sents) ==
    LET found == extract_articles(lines, words, sents)
    IN  IF found = "raises" THEN <<>>
        ELSE [i \in 1..Len(found) |-> ArticleContent(ArticleTextOf(JoinLines(lines), found, i))]

StructuredPages ==
    {<<"ARTICLE I - DEFINITIONS", "The Term means...">>, <<"ARTICLE I - DEFINITIONS">>}

InitStructured ==
    /\ pc = "start"
    /\ json_data \in [kind : {"pages"}, pages : StructuredPages]
    /\ ner_out \in EntityAnswers(json_data.pages)
    /\ spacy_out \in [ents : {<<>>}, noun_chunks : {<<>>},
                      sents : SentenceAnswers(json_data.pages)]
    /\ txt_file \in TxtFileStates
    /\ txt_lines \in (IF txt_file = "present" THEN SeqsUpTo(LineVocab, 1) ELSE {<<>>})
    /\ json_success = TRUE
    /\ processed_data = InitialProcessedData
    /\ structured = NothingStored
    /\ articles = <<>>
    /\ first_pages_text = ""
    /\ potential_parties = <<>>
    /\ idx = 1
    /\ seen_parties = {}
    /\ parties = <<>>
    /\ filtered_parties = <<>>
    /\ ResolverIdle

SpecStructured == InitStructured /\ [][Next]_vars

\* The structured extraction draws an Article with content from the pages.
YieldsContent ==
    \E i \in DOMAIN StructuredContents(json_data.pages, ner_out, spacy_out.sents) :
        StructuredContents(json_data.pages, ner_out, spacy_out.sents)[i] # ""

\* C27: process_with_fallback calls the three extractors with the arguments
\* their definitions require, so a document whose non-empty page text yields
\* an Article with content ends with the structured result returned, its
\* provenance "json" (or "hybrid").
C27_StructuredOutcome ==
    (Terminated /\ YieldsContent)
        => pc = "returned" /\ processed_data.source \in {"json", "hybrid"}

(***************************************************************************)
(* The validation of process_with_fallback (src/src/json_to_neo4j.py lines *)
(* 477-483) taken by itself, on what the structured extraction stored.     *)
(***************************************************************************)

\* Articles as extract_articles (src/src) builds them: the content is "" at
\* lines 75 and 104 and is filled at line 265 only when no Section was found.
SectionedArticle ==
    [number |-> "I", numeric_id |-> "1", title |-> "DEFINITIONS", content |-> "",
     sections |-> <<[number |-> "1.1", title |-> "Term", content |-> "The Term means..."]>>]

PlainArticle ==
    [number |-> "II", numeric_id |-> "2", title |-> "PAYMENT",
     content |-> "Fees are due...", sections |-> <<>>]

HeaderOnlyArticle ==
    [number |-> "III", numeric_id |-> "3", title |-> "NOTICES", content |-> "",
     sections |-> <<>>]

ExtractedArticles == SeqsUpTo({SectionedArticle, PlainArticle, HeaderOnlyArticle}, 2)

InitValidate ==
    /\ pc = "json_validate"
    /\ json_data = [kind |-> "pages", pages |-> <<"ARTICLE I - DEFINITIONS">>]
    /\ txt_file \in TxtFileStates
    /\ txt_lines \in (IF txt_file = "present" THEN SeqsUpTo(LineVocab, 1) ELSE {<<>>})
    /\ json_success = TRUE
    /\ structured \in [metadata : StructuredMetadata, articles : ExtractedArticles]
    /\ processed_data = [metadata |-> structured.metadata, articles |-> structured.articles,
                         parties |-> <<>>, source |-> "json"]
    /\ articles = <<>>
    /\ first_pages_text = ""
    /\ ner_out = <<>>
    /\ spacy_out = [ents |-> <<>>, noun_chunks |-> <<>>, sents |-> <<>>]
    /\ potential_parties = <<>>
    /\ idx = 1
    /\ seen_parties = {}
    /\ parties = <<>>
    /\ filtered_parties = <<>>
    /\ ResolverIdle

\* Line 481: any(article.get("content") for article in articles)
AnyContent(as) == \E i \in 1..Len(as) : as[i].content # ""

\* Lines 477-483: no Article, or no Article with content, fails the pass.
Validate ==
    /\ pc = "json_validate"
    /\ json_success' = (processed_data.articles # <<>> /\ AnyContent(processed_data.articles))
    /\ pc' = "json_tried"
    /\ UNCHANGED <<processed_data, structured>>
    /\ UNCHANGED orchFrame

NextValidate == Validate \/ TxtFallback \/ SkipFallback \/ HybridStep \/ Return

SpecValidate == InitValidate /\ [][NextValidate]_vars

\* Every Article has a Section with content.
EverySectioned(as) ==
    /\ as # <<>>
    /\ \A i \in 1..Len(as) :
          \E j \in 1..Len(as[i].sections) : as[i].sections[j].content # ""

BoundVariable(command) ==
    SubSeq(command, 9, RunEnd(command, 9, Letters \cup Digits \cup {"_"}) - 1)

\* CREATE (<name>:<Label> {...}) creates a node; CREATE (<name>)-[...]->(...)
\* creates a relationship between nodes bound before.
CreatesNode(command) ==
    /\ SubSeq(command, 1, 8) = "CREATE ("
    /\ CharAt(command, 9 + Len(BoundVariable(command))) = ":"

\* C29: in the command list generate_neo4j_cypher returns, no two statements
\* that create a node bind the same variable name; in particular the Person of
\* signatory j of party i and the Section j of Article i have different names.
C29_NodeVariablesUnique ==
    pc = "pjf_basic" =>
        \A i, j \in 1..Len(cypher_commands) :
            (i # j /\ CreatesNode(cypher_commands[i]) /\ CreatesNode(cypher_commands[j]))
                => BoundVariable(cypher_commands[i]) # BoundVariable(cypher_commands[j])

(***************************************************************************)
(* extract_parties on short documents: the last pages searched for        *)
(* signatures (src/src/extract/parties.py lines 28-32).                    *)
(***************************************************************************)

MaxPages == 3

PageVocab ==
    {"This Agreement is made.", "Acme Inc.\nBy: ____\nName: John Doe\nTitle: CEO"}

\* Lines 29-32: the last two pages, of a document of more than two pages.
LastPagesTextAlways(pages) ==
    JoinLines(SubSeq(pages, IF Len(pages) > 2 THEN Len(pages) - 1 ELSE 1, Len(pages)))

LastPagesText(pages) ==
    IF Len(pages) > 2 THEN JoinLines(SubSeq(pages, Len(pages) - 1, Len(pages))) ELSE ""

\* extract_parties has created the parties and reaches line 160 (an empty
\* text is given to no service but nlp, which finds no entity in it).
InitPages ==
    /\ pc = "sig_patterns"
    /\ json_data \in [kind : {"pages"}, pages : SeqsUpTo(PageVocab, MaxPages)]
    /\ parties \in CreatedParties
    /\ last_pages_text = LastPagesText(json_data.pages)
    /\ \E a \in (IF last_pages_text = "" THEN {[ner |-> <<>>, ents |-> <<>>]}
                 ELSE SignatureAnswers) :
          /\ ner_out = a.ner
          /\ spacy_out = [ents |-> a.ents, noun_chunks |-> <<>>, sents |-> <<>>]
    /\ first_pages_text = ""
    /\ potential_parties = <<>>
    /\ idx = 1
    /\ seen_parties = {}
    /\ filtered_parties = <<>>
    /\ txt_lines = <<>>
    /\ articles = <<>>
    /\ txt_file = "none"
    /\ json_success = FALSE
    /\ processed_data = InitialProcessedData
    /\ structured = NothingStored
    /\ metadata = EmptyDict
    /\ entities = EmptyDict
    /\ date_matches = <<>>
    /\ doc_classification = <<>>
    /\ steps = <<>>
    /\ OutputIdle

SpecPages == InitPages /\ [][NextSig]_vars

\* C30: for a document of at most two pages extract_parties returns every
\* party without a signatory, whatever signature blocks and person names its
\* pages hold.
C30_ShortDocumentNoSignatories ==
    (pc = "sig_returned" /\ Len(json_data.pages) <= 2) => NoSignatories(parties)

\* A document of two pages, one of them a signature block of a party, was
\* resolved and the party has no signatory.
C30_Witness ==
    /\ pc = "sig_returned"
    /\ Len(json_data.pages) = 2
    /\ json_data.pages[2] = "Acme Inc.\nBy: ____\nName: John Doe\nTitle: CEO"
    /\ parties # <<>>
    /\ NoSignatories(parties)
====
